---- MODULE Spec2Model ----
(***************************************************************************)
(* A model of the screen-text pipeline: ScreenCapture (paced capture loop  *)
(* with a rolling frame buffer), OCRExtractor (throttled, single-flight    *)
(* text extraction with a rolling text buffer) and ContextAnalyzer         *)
(* (periodic analysis merged into the shared context state).               *)
(*                                                                         *)
(* Time is a discrete clock `now`; one tick is one capture interval        *)
(* (1/fps seconds), so one second is CAPTURE_FPS ticks.                    *)
(* Texts are sequences of one-character strings.                           *)
(***************************************************************************)
EXTENDS Naturals, Integers, Sequences, FiniteSets, TLC

\* ------------------------------------------------------------------ bounds
MaxTime == 6
MaxFrames == 6
MaxCtxTime == 3
MaxCycles == 2
MaxForce == 1
MaxCalls == 3
MaxQueryTime == 3
MaxReads == 3
\* The analysis interval the analyzer is constructed with, in ticks.
AnalysisIntervalTicks == 2

\* ------------------------------------------------------- program constants
CAPTURE_FPS == 3
EveryKthFrame == 3
KeyPrefixLen == 50
\* max_text_length of _analyze_text, in characters.
MaxTextLength == 4000
\* join(timeout=2.0), in ticks.
JoinTimeoutTicks == 2 * CAPTURE_FPS

\* One tick of `now` is one frame interval (screen_capture.py:32).
FrameIntervalTicks == 1
\* The rate limit of process_frame, 1.0 second, in ticks.
MinExtractionTicks == CAPTURE_FPS * FrameIntervalTicks

\* Python's None as the value of an optional timestamp.
NoTime == -1

\* No query has returned yet.
NoRet == [op |-> "none", arg |-> 0, val |-> <<>>]

\* Return values of process_frame: None, or the extracted text.
ReturnNone == [none |-> TRUE, text |-> <<>>]
ReturnText(s) == [none |-> FALSE, text |-> s]

VARIABLES
    now,                   \* datetime.now() / time.time()
    frame_buffer,          \* ScreenCapture.frame_buffer
    next_capture,          \* earliest start of the next capture iteration
    frames_appended,       \* number of appends made to frame_buffer
    frame_count,           \* MemoryContextApp._frame_count
    text_buffer,           \* OCRExtractor.text_buffer
    texts_appended,        \* number of appends made to text_buffer
    processing,            \* OCRExtractor._processing
    last_extraction_time,  \* OCRExtractor._last_extraction_time
    ocr,                   \* the per-frame OCR threads, by frame ordinal
    attempts,              \* log of the calls that reached the OCR engine
    current_activity,      \* ContextAnalyzer.current_activity
    current_app,           \* ContextAnalyzer.current_app
    key_events,            \* ContextAnalyzer.key_events
    events_appended,       \* number of appends made to key_events
    last_analysis_time,    \* ContextAnalyzer._last_analysis_time
    provider,              \* ContextAnalyzer._provider
    running,               \* ContextAnalyzer._running
    next_cycle,            \* end of the analysis loop's current sleep
    an,                    \* the analysis loop thread and a force_analyze caller
    forces,                \* number of force_analyze calls made
    cycles,                \* number of cycles the analysis loop began
    finished,              \* the latest cycle that ended, and how
    calls,                 \* number of calls made through the public API
    ret,                   \* the value returned by the latest query
    reads,                 \* what a reader thread's get_current_context calls returned
    lock_holder,           \* the thread holding each mutex, or "none"
    external,              \* the external call each thread is inside, or "none"
    lpc,                   \* each thread's position among its locks and calls
    reader,                \* OCRExtractor._reader
    cap_running,           \* ScreenCapture._running
    stage,                 \* each stage's loop threads and its stop() under way
    called,                \* the latest start() or stop() call
    log                    \* what the stages printed

capVars == <<frame_buffer, next_capture, frames_appended, frame_count>>
ocrVars == <<text_buffer, texts_appended, processing, last_extraction_time,
             ocr, attempts>>
ctxState == <<current_activity, current_app, key_events, last_analysis_time>>
ctlVars == <<running, forces, cycles>>
ctxVars == <<ctxState, events_appended, provider, next_cycle, an, finished, ctlVars>>
lockVars == <<lock_holder, external, lpc, reader>>
stageVars == <<cap_running, stage, called, log>>
obsVars == <<reads, lockVars, stageVars>>
apiVars == <<calls, ret, obsVars>>

vars == <<now, capVars, ocrVars, ctxVars, apiVars>>

\* ------------------------------------------------------------------- texts
IsSpace(c) == c \in {" ", "\n", "\t"}

\* str.lower() on one character.
LowerChar(c) == IF c = "A" THEN "a" ELSE IF c = "B" THEN "b" ELSE c

Lower(s) == [i \in 1..Len(s) |-> LowerChar(s[i])]

\* s[:n]
Prefix(s, n) == IF Len(s) <= n THEN s ELSE SubSeq(s, 1, n)

RECURSIVE LStrip(_)
LStrip(s) == IF s # <<>> /\ IsSpace(Head(s)) THEN LStrip(Tail(s)) ELSE s

RECURSIVE RStrip(_)
RStrip(s) ==
    IF s # <<>> /\ IsSpace(s[Len(s)]) THEN RStrip(SubSeq(s, 1, Len(s) - 1)) ELSE s

\* str.strip()
Strip(s) == RStrip(LStrip(s))

\* A buffer that, once full, refuses the new item.
DequeAppendKeepsOldest(buf, x, cap) ==
    IF Len(buf) >= cap THEN buf ELSE Append(buf, x)

\* ----------------------------------------------------------------- buffers
\* collections.deque(maxlen=cap).append(x): drops the oldest item when full.
DequeAppend(buf, x, cap) ==
    IF cap = 0 THEN buf
    ELSE IF Len(buf) >= cap THEN Append(Tail(buf), x)
    ELSE Append(buf, x)

\* Scaled-down capacities of the three rolling buffers.
MaxFrameBuffer == 2
MaxTextBuffer == 2

\* -------------------------------------------------------------- OCR engine
\* What extract_text can return: ("", 0.0) when the engine finds nothing or
\* raises, otherwise the joined text and the mean confidence (in percent).
OcrOutcomes ==
    { [text |-> <<>>, confidence |-> 0],
      [text |-> <<" ">>, confidence |-> 50],
      [text |-> <<"a">>, confidence |-> 90] }

\* ------------------------------------------------------------ OCRExtractor
Threads == 1..MaxFrames

NoThread == [pc |-> "unborn", timestamp |-> 0, text |-> <<>>, confidence |-> 0,
             result |-> ReturnNone, chk_now |-> 0, chk_last |-> NoTime]

\* process_frame's rate limit: too soon since the last stored extraction.
RateLimited(last, t) == last # NoTime /\ t - last < MinExtractionTicks

\* A variant of the in-flight check whose skip path runs the finally clause.
CheckProcessingClearsFlag(t) ==
    /\ ocr[t].pc = "check_processing"
    /\ IF processing
         THEN /\ ocr' = [ocr EXCEPT ![t].pc = "done", ![t].result = ReturnNone]
              /\ processing' = FALSE
         ELSE /\ ocr' = [ocr EXCEPT ![t].pc = "check_rate"]
              /\ processing' = processing
    /\ UNCHANGED <<apiVars, now, capVars, ctxVars, text_buffer, texts_appended,
                   last_extraction_time, attempts>>

\* process_frame, line 111: skip when an extraction is in flight.
CheckProcessing(t) ==
    /\ ocr[t].pc = "check_processing"
    /\ IF processing
         THEN ocr' = [ocr EXCEPT ![t].pc = "done", ![t].result = ReturnNone]
         ELSE ocr' = [ocr EXCEPT ![t].pc = "check_rate"]
    /\ UNCHANGED <<apiVars, now, capVars, ctxVars, text_buffer, texts_appended, processing,
                   last_extraction_time, attempts>>

\* process_frame, lines 115-118: skip when less than a second has elapsed.
CheckRate(t) ==
    /\ ocr[t].pc = "check_rate"
    /\ IF RateLimited(last_extraction_time, now)
         THEN ocr' = [ocr EXCEPT ![t].pc = "done", ![t].result = ReturnNone]
         ELSE ocr' = [ocr EXCEPT ![t].pc = "set_flag", ![t].chk_now = now,
                                 ![t].chk_last = last_extraction_time]
    /\ UNCHANGED <<apiVars, now, capVars, ctxVars, text_buffer, texts_appended, processing,
                   last_extraction_time, attempts>>

\* process_frame, line 120: the flag is set and the extraction begins.
SetFlag(t) ==
    /\ ocr[t].pc = "set_flag"
    /\ processing' = TRUE
    /\ ocr' = [ocr EXCEPT ![t].pc = "extract"]
    /\ attempts' = Append(attempts, [frame |-> t, start |-> now,
                                     chk_now |-> ocr[t].chk_now,
                                     chk_last |-> ocr[t].chk_last,
                                     end |-> NoTime])
    /\ UNCHANGED <<apiVars, now, capVars, ctxVars, text_buffer, texts_appended,
                   last_extraction_time>>

\* process_frame, line 122: the call into the OCR engine returns.
Extract(t) ==
    /\ ocr[t].pc = "extract"
    /\ \E out \in OcrOutcomes :
         ocr' = [ocr EXCEPT ![t].pc = "store", ![t].text = out.text,
                            ![t].confidence = out.confidence]
    /\ UNCHANGED <<apiVars, now, capVars, ctxVars, text_buffer, texts_appended, processing,
                   last_extraction_time, attempts>>

\* process_frame, lines 125-130: the record appended under the buffer lock.
StoreRecord(buf, n, timestamp, text, confidence) ==
    DequeAppend(buf, [timestamp |-> timestamp, text |-> text,
                      confidence |-> confidence, n |-> n + 1], MaxTextBuffer)

\* A variant that stores whatever the engine returned.
StoreAnyText(t) ==
    /\ ocr[t].pc = "store"
    /\ text_buffer' = StoreRecord(text_buffer, texts_appended,
                                  ocr[t].timestamp, ocr[t].text, ocr[t].confidence)
    /\ texts_appended' = texts_appended + 1
    /\ ocr' = [ocr EXCEPT ![t].pc = "set_last"]
    /\ UNCHANGED <<apiVars, now, capVars, ctxVars, processing, last_extraction_time, attempts>>

\* A variant whose blank-text return leaves without the finally clause.
StoreBlankKeepsFlag(t) ==
    /\ ocr[t].pc = "store"
    /\ IF Strip(ocr[t].text) # <<>>
         THEN /\ text_buffer' = StoreRecord(text_buffer, texts_appended,
                    ocr[t].timestamp, ocr[t].text, ocr[t].confidence)
              /\ texts_appended' = texts_appended + 1
              /\ ocr' = [ocr EXCEPT ![t].pc = "set_last"]
         ELSE /\ UNCHANGED <<text_buffer, texts_appended>>
              /\ ocr' = [ocr EXCEPT ![t].pc = "done", ![t].result = ReturnNone]
    /\ UNCHANGED <<apiVars, now, capVars, ctxVars, processing, last_extraction_time, attempts>>

\* process_frame, lines 124-135: a non-blank text is appended under the
\* buffer lock; a blank one is dropped and the call returns None.
Store(t) ==
    /\ ocr[t].pc = "store"
    /\ IF Strip(ocr[t].text) # <<>>
         THEN /\ text_buffer' = StoreRecord(text_buffer, texts_appended,
                    ocr[t].timestamp, ocr[t].text, ocr[t].confidence)
              /\ texts_appended' = texts_appended + 1
              /\ ocr' = [ocr EXCEPT ![t].pc = "set_last"]
         ELSE /\ UNCHANGED <<text_buffer, texts_appended>>
              /\ ocr' = [ocr EXCEPT ![t].pc = "finally", ![t].result = ReturnNone]
    /\ UNCHANGED <<apiVars, now, capVars, ctxVars, processing, last_extraction_time, attempts>>

\* process_frame, lines 132-133.
SetLast(t) ==
    /\ ocr[t].pc = "set_last"
    /\ last_extraction_time' = now
    /\ ocr' = [ocr EXCEPT ![t].pc = "finally", ![t].result = ReturnText(ocr[t].text)]
    /\ UNCHANGED <<apiVars, now, capVars, ctxVars, text_buffer, texts_appended, processing,
                   attempts>>

\* process_frame, lines 137-138.
Finally(t) ==
    /\ ocr[t].pc = "finally"
    /\ processing' = FALSE
    /\ ocr' = [ocr EXCEPT ![t].pc = "done"]
    /\ attempts' = [i \in DOMAIN attempts |->
                      IF attempts[i].frame = t
                        THEN [attempts[i] EXCEPT !.end = now]
                        ELSE attempts[i]]
    /\ UNCHANGED <<apiVars, now, capVars, ctxVars, text_buffer, texts_appended,
                   last_extraction_time>>

\* -------------------------------------------------------- MemoryContextApp
\* A variant that hands every frame to OCR.
StartsOcrEveryFrame(count) == count % 1 = 0

\* _on_frame_captured: every 3rd frame starts an OCR thread.
StartsOcr(count) == count % EveryKthFrame = 0

OnFrameCaptured(timestamp) ==
    /\ frame_count' = frame_count + 1
    /\ IF StartsOcr(frame_count + 1)
         THEN ocr' = [ocr EXCEPT ![frame_count + 1] =
                        [NoThread EXCEPT !.pc = "check_processing",
                                         !.timestamp = timestamp]]
         ELSE ocr' = ocr

\* ----------------------------------------------------------- ScreenCapture
\* _capture_loop, lines 102-106: the frame appended under the lock.
AppendFrame(buf, n, timestamp) ==
    DequeAppend(buf, [timestamp |-> timestamp, n |-> n + 1], MaxFrameBuffer)

\* One iteration of _capture_loop in which the grab succeeds: the frame is
\* appended under the lock and handed to the frame callback, when one is set.
CaptureIteration(callback_set) ==
    /\ frames_appended < MaxFrames
    /\ now >= next_capture
    /\ frame_buffer' = AppendFrame(frame_buffer, frames_appended, now)
    /\ frames_appended' = frames_appended + 1
    /\ IF callback_set
         THEN OnFrameCaptured(now)
         ELSE UNCHANGED <<frame_count, ocr>>
    /\ next_capture' = now + FrameIntervalTicks
    /\ UNCHANGED <<now, ctxVars, text_buffer, texts_appended, processing,
                   last_extraction_time, attempts>>

\* A capture loop whose callback runs the extraction itself: no iteration
\* begins while an extraction is under way.
CaptureFrameWaitsForOcr ==
    /\ \A t \in Threads : ocr[t].pc \in {"unborn", "done"}
    /\ CaptureIteration(TRUE)
    /\ UNCHANGED apiVars

\* The capture loop of the application, whose frame callback is set.
CaptureFrame == CaptureIteration(TRUE) /\ UNCHANGED apiVars

\* One iteration of _capture_loop in which the grab raises.
CaptureFail ==
    /\ now >= next_capture
    /\ now < MaxTime
    /\ next_capture' = now + FrameIntervalTicks
    /\ UNCHANGED <<apiVars, now, frame_buffer, frames_appended, frame_count, ocrVars, ctxVars>>

\* Time passes, up to the horizon `max`.
Tick(max) ==
    /\ now < max
    /\ now' = now + 1
    /\ UNCHANGED <<apiVars, capVars, ocrVars, ctxVars>>

\* --------------------------------------------------------- analysis result
\* A decoded response.  `top` tells whether the JSON value is an object; an
\* object's fields may be missing (has = FALSE).  key_info is a list of
\* items, or is absent, or is a value that cannot be iterated ("scalar": a
\* number or null).  An item is an
\* object with optional type, value and context, or is no object at all.
Field(v) == [has |-> TRUE, v |-> v]
NoField == [has |-> FALSE, v |-> ""]

Item(type, value, context) ==
    [obj |-> TRUE, type |-> type, value |-> value, context |-> context]
NotAnObject == [obj |-> FALSE, type |-> NoField, value |-> NoField, context |-> NoField]

KeyInfo(kind, items) == [kind |-> kind, items |-> items]

Result(activity, application, key_info) ==
    [top |-> "object", activity |-> activity, application |-> application,
     key_info |-> key_info]
NotAnObjectResult ==
    [top |-> "other", activity |-> NoField, application |-> NoField,
     key_info |-> KeyInfo("absent", <<>>)]

\* --------------------------------------------------------------- responses
\* A response text is a sequence of tokens: a code fence, the word json,
\* white space, free text, or the text of one JSON value.
Tok(kind) == [tok |-> kind, v |-> NotAnObjectResult]
JsonText(r) == [tok |-> "value", v |-> r]

RECURSIVE LStripToks(_)
LStripToks(s) == IF s # <<>> /\ Head(s).tok = "ws" THEN LStripToks(Tail(s)) ELSE s

RECURSIVE RStripToks(_)
RStripToks(s) ==
    IF s # <<>> /\ s[Len(s)].tok = "ws" THEN RStripToks(SubSeq(s, 1, Len(s) - 1)) ELSE s

StripToks(s) == RStripToks(LStripToks(s))

\* text.split("```")[1] of a text that starts with a fence: what lies between
\* the opening fence and the next one (or the end).
RECURSIVE UpToFence(_)
UpToFence(s) ==
    IF s = <<>> \/ Head(s).tok = "fence" THEN <<>>
    ELSE <<Head(s)>> \o UpToFence(Tail(s))

\* _analyze_text, lines 272-278.
CleanResponse(text) ==
    LET s1 == StripToks(text)
        s2 == IF s1 # <<>> /\ Head(s1).tok = "fence"
                THEN LET inner == UpToFence(Tail(s1))
                     IN IF inner # <<>> /\ Head(inner).tok = "json"
                          THEN Tail(inner) ELSE inner
                ELSE s1
    IN StripToks(s2)

\* json.loads, line 280: succeeds on the text of exactly one JSON value.
JsonLoads(text) ==
    IF Len(text) = 1 /\ text[1].tok = "value"
      THEN [ok |-> TRUE, value |-> text[1].v]
      ELSE [ok |-> FALSE, value |-> NotAnObjectResult]

ParseResponse(text) == JsonLoads(CleanResponse(text))

\* ---------------------------------------------------------- ContextAnalyzer
MaxHistory == 2

\* dict.get(key, default)
Get(field, default) == IF field.has THEN field.v ELSE default

\* _analyze_text, lines 293-298: info.get(key) of a missing key is None,
\* which equals no stored type or value.
IsDuplicate(events, info) ==
    \E i \in 1..Len(events) :
        /\ info.type.has /\ events[i].type = info.type.v
        /\ info.value.has /\ events[i].value = info.value.v

\* _analyze_text, lines 301-306.
NewEvent(info, timestamp, n) ==
    [timestamp |-> timestamp,
     type |-> Get(info.type, "info"),
     value |-> Get(info.value, ""),
     context |-> Get(info.context, ""),
     n |-> n + 1]

\* _analyze_text, lines 291-306: the loop over key_info.  An item that is no
\* object raises at info.get, leaving what was appended before it.
RECURSIVE MergeKeyInfo(_, _, _, _)
MergeKeyInfo(events, n, items, timestamp) ==
    IF items = <<>> THEN [events |-> events, n |-> n, raised |-> FALSE]
    ELSE LET info == Head(items)
         IN IF ~info.obj THEN [events |-> events, n |-> n, raised |-> TRUE]
            ELSE IF IsDuplicate(events, info)
              THEN MergeKeyInfo(events, n, Tail(items), timestamp)
              ELSE MergeKeyInfo(
                     DequeAppend(events, NewEvent(info, timestamp, n), MaxHistory),
                     n + 1, Tail(items), timestamp)

\* _analyze_text, lines 283-306: the update made under the lock.  A result
\* that is no object raises at the first result.get; a key_info that cannot
\* be iterated raises at the for statement, after activity and application
\* were assigned.
MergeResult(r, activity, app, events, n, timestamp) ==
    IF r.top # "object"
      THEN [activity |-> activity, app |-> app, events |-> events, n |-> n,
            raised |-> TRUE]
      ELSE LET a == Get(r.activity, activity)
               b == Get(r.application, app)
               m == IF r.key_info.kind = "list"
                      THEN MergeKeyInfo(events, n, r.key_info.items, timestamp)
                      ELSE [events |-> events, n |-> n,
                            raised |-> r.key_info.kind = "scalar"]
           IN [activity |-> a, app |-> b, events |-> m.events, n |-> m.n,
               raised |-> m.raised]

AnThreads == {"loop", "force"}

\* A thread's place in a cycle.  `touched` records whether a step of the
\* cycle under way has changed the context state, `blank` whether the text
\* the cycle was given is empty or whitespace-only.
NoCycle == [pc |-> "idle", result |-> NotAnObjectResult, touched |-> FALSE,
            blank |-> FALSE]

NoneFinished == [thread |-> "none", outcome |-> "none", touched |-> FALSE]

\* An end of cycle after which the loop starts its next cycle at once.
EndCycleRetriesAtOnce(th, outcome) ==
    /\ an' = [an EXCEPT ![th] = NoCycle]
    /\ finished' = [thread |-> th, outcome |-> outcome,
                    touched |-> an[th].touched \/ ctxState' # ctxState]
    /\ next_cycle' = IF th = "loop" THEN now ELSE next_cycle

\* The end of a cycle: the loop thread goes on to its sleep (line 218), the
\* force_analyze caller returns.
EndCycle(th, outcome) ==
    /\ an' = [an EXCEPT ![th] = NoCycle]
    /\ finished' = [thread |-> th, outcome |-> outcome,
                    touched |-> an[th].touched \/ ctxState' # ctxState]
    /\ next_cycle' = IF th = "loop" THEN now + AnalysisIntervalTicks ELSE next_cycle

\* A step inside a cycle, taking the thread to `pc`.
Proceed(th, pc, result) ==
    /\ an' = [an EXCEPT ![th].pc = pc, ![th].result = result,
                        ![th].touched = @ \/ ctxState' # ctxState]
    /\ UNCHANGED <<finished, next_cycle>>

\* ContextAnalyzer.start.
StartAnalyzer ==
    /\ ~running
    /\ running' = TRUE
    /\ next_cycle' = now
    /\ UNCHANGED <<apiVars, now, capVars, ocrVars, ctxState, events_appended,
                   provider, an, finished, forces, cycles>>

\* _analysis_loop, lines 208-213: the text callback returns; a blank text
\* ends the cycle.
LoopFetch(texts) ==
    /\ running
    /\ an["loop"].pc = "idle"
    /\ now >= next_cycle
    /\ cycles < MaxCycles
    /\ cycles' = cycles + 1
    /\ UNCHANGED <<apiVars, now, capVars, ocrVars, ctxState, events_appended,
                   provider, running, forces>>
    /\ \E text \in texts :
         IF Strip(text) # <<>>
           THEN Proceed("loop", "provider", NotAnObjectResult)
           ELSE EndCycle("loop", "blank")

\* A loop that an exception of the text callback ends.
LoopFetchFailStops ==
    /\ running
    /\ an["loop"].pc = "idle"
    /\ now >= next_cycle
    /\ cycles < MaxCycles
    /\ cycles' = cycles + 1
    /\ running' = FALSE
    /\ finished' = [thread |-> "loop", outcome |-> "callback_error", touched |-> FALSE]
    /\ UNCHANGED <<apiVars, now, capVars, ocrVars, ctxState, events_appended,
                   provider, forces, an, next_cycle>>

\* _analysis_loop, lines 209-218: the text callback raises; the handler at
\* lines 214-215 prints and the loop goes on to its sleep.
LoopFetchFails ==
    /\ running
    /\ an["loop"].pc = "idle"
    /\ now >= next_cycle
    /\ cycles < MaxCycles
    /\ cycles' = cycles + 1
    /\ UNCHANGED <<apiVars, now, capVars, ocrVars, ctxState, events_appended,
                   provider, running, forces>>
    /\ EndCycle("loop", "callback_error")

\* force_analyze, line 359: _analyze_text is entered with the caller's
\* text, whatever it is.
ForceStart(texts) ==
    /\ an["force"].pc = "idle"
    /\ forces < MaxForce
    /\ forces' = forces + 1
    /\ UNCHANGED <<apiVars, now, capVars, ocrVars, ctxState, events_appended,
                   provider, running, cycles, finished, next_cycle>>
    /\ \E text \in texts :
         an' = [an EXCEPT !["force"].pc = "provider",
                          !["force"].blank = (Strip(text) = <<>>)]

\* _analyze_text, line 228: _get_provider creates the provider on first use;
\* get_llm_provider raises when none can be initialised.
GetProvider(th) ==
    /\ an[th].pc = "provider"
    /\ UNCHANGED <<apiVars, now, capVars, ocrVars, ctxState, events_appended, ctlVars>>
    /\ \/ /\ provider' = "ready"
          /\ Proceed(th, "call", an[th].result)
       \/ /\ provider = "unset"
          /\ provider' = provider
          /\ EndCycle(th, "provider_error")

\* A variant of the call that stamps the analysis time even when the
\* response cannot be decoded.
CallAnalysisStampsFailure(th, responses) ==
    /\ an[th].pc = "call"
    /\ UNCHANGED <<apiVars, now, capVars, ocrVars, current_activity, current_app,
                   key_events, events_appended, provider, ctlVars>>
    /\ \/ /\ last_analysis_time' = last_analysis_time
          /\ EndCycle(th, "transport_error")
       \/ \E text \in responses :
            LET parsed == ParseResponse(text)
            IN IF parsed.ok
                 THEN /\ last_analysis_time' = last_analysis_time
                      /\ Proceed(th, "merge", parsed.value)
                 ELSE /\ last_analysis_time' = now
                      /\ EndCycle(th, "decode_error")

\* _analyze_text, lines 270-280 and 311-314: provider.analyze raises, or
\* returns a text that is cleaned and decoded; either failure ends the cycle.
CallAnalysis(th, responses) ==
    /\ an[th].pc = "call"
    /\ UNCHANGED <<apiVars, now, capVars, ocrVars, ctxState, events_appended,
                   provider, ctlVars>>
    /\ \/ EndCycle(th, "transport_error")
       \/ \E text \in responses :
            LET parsed == ParseResponse(text)
            IN IF parsed.ok
                 THEN Proceed(th, "merge", parsed.value)
                 ELSE EndCycle(th, "decode_error")

\* A variant that goes back to the analysis call when the merge raises.
MergeRetriesCall(th) ==
    /\ an[th].pc = "merge"
    /\ UNCHANGED <<apiVars, now, capVars, ocrVars, provider, ctlVars>>
    /\ LET m == MergeResult(an[th].result, current_activity, current_app,
                            key_events, events_appended, now)
       IN /\ current_activity' = m.activity
          /\ current_app' = m.app
          /\ key_events' = m.events
          /\ events_appended' = m.n
          /\ last_analysis_time' = last_analysis_time
          /\ IF m.raised
               THEN Proceed(th, "call", NotAnObjectResult)
               ELSE Proceed(th, "set_last", an[th].result)

\* _analyze_text, lines 283-306, executed under the lock; an exception
\* raised there ends the cycle (lines 313-314).
Merge(th) ==
    /\ an[th].pc = "merge"
    /\ UNCHANGED <<apiVars, now, capVars, ocrVars, provider, ctlVars>>
    /\ LET m == MergeResult(an[th].result, current_activity, current_app,
                            key_events, events_appended, now)
       IN /\ current_activity' = m.activity
          /\ current_app' = m.app
          /\ key_events' = m.events
          /\ events_appended' = m.n
          /\ last_analysis_time' = last_analysis_time
          /\ IF m.raised
               THEN EndCycle(th, "shape_error")
               ELSE Proceed(th, "set_last", an[th].result)

\* A variant in which a merged cycle ends without stamping the time.
SetLastAnalysisKeeps(th) ==
    /\ an[th].pc = "set_last"
    /\ UNCHANGED <<apiVars, now, capVars, ocrVars, ctxState, events_appended,
                   provider, ctlVars>>
    /\ EndCycle(th, "merged")

\* _analyze_text, line 308.
SetLastAnalysis(th) ==
    /\ an[th].pc = "set_last"
    /\ UNCHANGED <<apiVars, now, capVars, ocrVars, current_activity, current_app,
                   key_events, events_appended, provider, ctlVars>>
    /\ last_analysis_time' = now
    /\ EndCycle(th, "merged")

\* ------------------------------------------------------------------ inputs
\* Texts the text callback returns to the analysis loop.
CycleTexts == { <<>>, <<" ">>, <<"a">> }

ItemA == Item(Field("otp"), Field("123456"), Field("A"))
ItemB == Item(Field("otp"), Field("123456"), Field("B"))
ItemNoType == Item(NoField, Field("123456"), NoField)
ItemEmail == Item(Field("email"), Field("a@b.c"), Field("sender"))

Banking(items) == Result(Field("banking"), Field("Bank App"), KeyInfo("list", items))

CtxResults ==
    { Banking(<<ItemA, ItemB>>),
      Banking(<<ItemNoType, ItemNoType>>),
      Banking(<<ItemEmail, NotAnObject>>),
      Result(Field("coding"), NoField, KeyInfo("scalar", <<>>)),
      Result(NoField, Field("Editor"), KeyInfo("absent", <<>>)),
      NotAnObjectResult }

\* What the analysis provider returns: a bare JSON text, a fenced one, or
\* something that is no JSON text.
CtxResponses ==
    { <<JsonText(r)>> : r \in CtxResults }
    \cup { <<Tok("fence"), Tok("json"), Tok("ws"), JsonText(Banking(<<ItemA, ItemB>>)),
            Tok("ws"), Tok("fence")>>,
           <<Tok("ws"), Tok("fence"), JsonText(Banking(<<ItemA, ItemB>>)), Tok("fence")>>,
           <<Tok("fence"), Tok("ws"), Tok("json"), JsonText(Banking(<<ItemA, ItemB>>)),
             Tok("fence")>>,
           <<Tok("text")>>,
           <<JsonText(Banking(<<ItemA, ItemB>>)), Tok("text")>>,
           <<>> }

\* ------------------------------------------------------------------ queries
\* A filter that leaves out the items lying exactly at the cutoff.
RECURSIVE FilterSinceStrict(_, _)
FilterSinceStrict(buf, cutoff) ==
    IF buf = <<>> THEN <<>>
    ELSE IF Head(buf).timestamp > cutoff
      THEN <<Head(buf)>> \o FilterSinceStrict(Tail(buf), cutoff)
      ELSE FilterSinceStrict(Tail(buf), cutoff)

\* The list comprehension of the time-filtered queries: the items whose
\* timestamp is at or after the cutoff, in buffer order.
RECURSIVE FilterSince(_, _)
FilterSince(buf, cutoff) ==
    IF buf = <<>> THEN <<>>
    ELSE IF Head(buf).timestamp >= cutoff
      THEN <<Head(buf)>> \o FilterSince(Tail(buf), cutoff)
      ELSE FilterSince(Tail(buf), cutoff)

\* ScreenCapture.get_frames_since, lines 146-152.
FramesSince(buf, t, seconds) == FilterSince(buf, t - seconds)

\* OCRExtractor.get_recent_text, lines 150-156.
RecentText(buf, t, seconds) == FilterSince(buf, t - seconds)

\* ContextAnalyzer.get_recent_key_events, lines 341-347; `window` is
\* minutes * 60 in ticks.
RecentKeyEvents(events, t, window) == FilterSince(events, t - window)

\* "\n".join(texts)
RECURSIVE Join(_)
Join(texts) ==
    IF texts = <<>> THEN <<>>
    ELSE IF Len(texts) = 1 THEN Head(texts)
    ELSE Head(texts) \o <<"\n">> \o Join(Tail(texts))

\* A loop whose key keeps the case of the text.
RECURSIVE UniqueTextsCaseSensitive(_, _)
UniqueTextsCaseSensitive(records, seen_texts) ==
    IF records = <<>> THEN <<>>
    ELSE LET text == Strip(Head(records).text)
             text_key == Prefix(text, KeyPrefixLen)
         IN IF text_key \notin seen_texts
              THEN <<text>> \o UniqueTextsCaseSensitive(Tail(records),
                                                        seen_texts \cup {text_key})
              ELSE UniqueTextsCaseSensitive(Tail(records), seen_texts)

\* get_combined_text, lines 171-181: the loop keeping the first text of
\* each key.
RECURSIVE UniqueTexts(_, _)
UniqueTexts(records, seen_texts) ==
    IF records = <<>> THEN <<>>
    ELSE LET text == Strip(Head(records).text)
             text_key == Lower(Prefix(text, KeyPrefixLen))
         IN IF text_key \notin seen_texts
              THEN <<text>> \o UniqueTexts(Tail(records), seen_texts \cup {text_key})
              ELSE UniqueTexts(Tail(records), seen_texts)

\* OCRExtractor.get_combined_text.
CombinedText(buf, t, seconds) == Join(UniqueTexts(RecentText(buf, t, seconds), {}))

\* ContextAnalyzer.get_current_context, lines 323-329.
CurrentContext ==
    [activity |-> current_activity, application |-> current_app,
     key_events |-> key_events, last_analysis |-> last_analysis_time]

\* get_current_context called by a reader thread while force_analyze may be
\* under way on another thread.  The call holds the context lock, which
\* the merge holds for the whole of lines 283-306.  Each returned snapshot
\* is logged with the number of force_analyze cycles begun, whether that
\* cycle was still under way, and how the latest cycle had ended.
ReadContext ==
    /\ Len(reads) < MaxReads
    /\ reads' = Append(reads, [val |-> CurrentContext,
                               cycle |-> forces,
                               during |-> an["force"].pc # "idle",
                               outcome |-> finished.outcome])
    /\ UNCHANGED <<calls, ret, lockVars, stageVars, now, capVars, ocrVars, ctxVars>>

\* A query returns `val` and changes nothing else.
Returns(op, arg, val) ==
    /\ ret' = [op |-> op, arg |-> arg, val |-> val]
    /\ UNCHANGED <<calls, obsVars, now, capVars, ocrVars, ctxVars>>

GetFramesSince(seconds) ==
    Returns("get_frames_since", seconds, FramesSince(frame_buffer, now, seconds))

\* A get_recent_text that drops the records older than the cutoff.
GetRecentTextPrunes(seconds) ==
    /\ ret' = [op |-> "get_recent_text", arg |-> seconds,
               val |-> RecentText(text_buffer, now, seconds)]
    /\ text_buffer' = RecentText(text_buffer, now, seconds)
    /\ UNCHANGED <<calls, obsVars, now, capVars, ctxVars, texts_appended,
                   processing, last_extraction_time, ocr, attempts>>

GetRecentText(seconds) ==
    Returns("get_recent_text", seconds, RecentText(text_buffer, now, seconds))

\* ScreenCapture.get_latest_frame, screen_capture.py:124-134: the newest
\* frame, or None (here the empty sequence).
GetLatestFrame ==
    Returns("get_latest_frame", 0,
            IF frame_buffer = <<>> THEN <<>>
            ELSE <<frame_buffer[Len(frame_buffer)]>>)

GetCombinedText(seconds) ==
    Returns("get_combined_text", seconds, CombinedText(text_buffer, now, seconds))

GetRecentKeyEvents(window) ==
    Returns("get_recent_key_events", window, RecentKeyEvents(key_events, now, window))

\* ------------------------------------------------- calls made one at a time
\* A whole call of process_frame made while no other call is under way.
ProcessFrameCall(timestamp, outcomes) ==
    /\ calls < MaxCalls
    /\ calls' = calls + 1
    /\ ret' = NoRet
    /\ IF processing \/ RateLimited(last_extraction_time, now)
         THEN UNCHANGED <<text_buffer, texts_appended, processing,
                          last_extraction_time>>
         ELSE \E out \in outcomes :
                /\ IF Strip(out.text) # <<>>
                     THEN /\ text_buffer' = StoreRecord(text_buffer, texts_appended,
                                timestamp, out.text, out.confidence)
                          /\ texts_appended' = texts_appended + 1
                          /\ last_extraction_time' = now
                     ELSE UNCHANGED <<text_buffer, texts_appended,
                                      last_extraction_time>>
                /\ processing' = FALSE
    /\ UNCHANGED <<obsVars, now, capVars, ctxVars, ocr, attempts>>

\* One iteration of the capture loop of a ScreenCapture with no callback set.
CaptureCall ==
    /\ calls < MaxCalls
    /\ calls' = calls + 1
    /\ ret' = NoRet
    /\ CaptureIteration(FALSE)
    /\ UNCHANGED obsVars

\* A force_analyze that returns the context as it was before the cycle.
ForceAnalyzeReturnsEarly ==
    ret' = [op |-> "force_analyze", arg |-> 0, val |-> CurrentContext]

\* force_analyze, line 360: get_current_context is called after
\* _analyze_text has returned.
ForceAnalyzeReturn ==
    ret' = [op |-> "force_analyze", arg |-> 0, val |-> CurrentContext']

\* A whole call of force_analyze made while no cycle is under way: it
\* returns the context as it is after _analyze_text.
ForceAnalyzeCall(responses) ==
    /\ calls < MaxCalls
    /\ calls' = calls + 1
    /\ an["loop"].pc = "idle" /\ an["force"].pc = "idle"
    /\ \/ /\ provider = "unset"
          /\ UNCHANGED <<provider, ctxState, events_appended>>
       \/ /\ provider' = "ready"
          /\ \/ UNCHANGED <<ctxState, events_appended>>
             \/ \E text \in responses :
                  LET parsed == ParseResponse(text)
                      m == MergeResult(parsed.value, current_activity, current_app,
                                       key_events, events_appended, now)
                  IN IF ~parsed.ok
                       THEN UNCHANGED <<ctxState, events_appended>>
                       ELSE /\ current_activity' = m.activity
                            /\ current_app' = m.app
                            /\ key_events' = m.events
                            /\ events_appended' = m.n
                            /\ last_analysis_time' =
                                 IF m.raised THEN last_analysis_time ELSE now
    /\ ForceAnalyzeReturn
    /\ UNCHANGED <<obsVars, now, capVars, ocrVars, next_cycle, an, finished, ctlVars>>

\* Time passes between calls.
ApiTick(max) ==
    /\ now < max
    /\ now' = now + 1
    /\ ret' = NoRet
    /\ UNCHANGED <<calls, obsVars, capVars, ocrVars, ctxVars>>

\* Timestamps a caller of process_frame passes: that of a frame captured
\* now or one tick ago.
FrameTimes == {t \in {now - 1, now} : t >= 0}

\* Look-back windows of the queries, in ticks, up to one that reaches back
\* to the start; a negative one puts the cutoff after every timestamp.
Windows(max) == {-1, 0, 1, max}

BufOutcomes ==
    { [text |-> <<>>, confidence |-> 0],
      [text |-> <<"a">>, confidence |-> 90] }

Pad == [i \in 1..KeyPrefixLen |-> "a"]

TextOutcomes ==
    { [text |-> <<>>, confidence |-> 0] }
    \cup { [text |-> s, confidence |-> 90] :
             s \in { <<"a">>, <<"A">>, <<" ", "a">>, <<"b">>,
                     Pad \o <<"x">>, Pad \o <<"y">> } }

ItemName == Item(Field("name"), Field("John"), Field("contact"))

\* The stub of the end-to-end example, and a response that is no JSON.
Otp999111 == Item(Field("otp"), Field("999111"), Field("sms"))

ForceResponses ==
    { <<JsonText(Banking(<<Otp999111>>))>>,
      <<Tok("text")>> }

BufResponses ==
    { <<JsonText(Banking(<<ItemA, ItemEmail, ItemName>>))>>,
      <<JsonText(Banking(<<ItemA>>))>>,
      <<Tok("text")>> }

\* ------------------------------------------------- locks and external calls
\* The same three stages with their mutexes and external calls made
\* explicit: each thread's steps are the acquisitions, the releases and the
\* beginnings and ends of the calls into the capture device, the OCR engine
\* and the analysis provider.
Locks == {"frame_lock", "buffer_lock", "reader_lock", "context_lock"}

LkThreads == {"capture", "ocr", "analysis", "query"}

Goto(t, pc) == lpc' = [lpc EXCEPT ![t] = pc]

Acquire(l, t) ==
    /\ lock_holder[l] = "none"
    /\ lock_holder' = [lock_holder EXCEPT ![l] = t]

Release(l) == lock_holder' = [lock_holder EXCEPT ![l] = "none"]

CallBegins(t, what) == external' = [external EXCEPT ![t] = what]

CallEnds(t) == external' = [external EXCEPT ![t] = "none"]

\* _capture_loop, lines 80-84: an iteration begins and calls sct.grab.
LkCapGrab ==
    /\ lpc["capture"] = "idle"
    /\ calls < MaxCalls
    /\ now >= next_capture
    /\ calls' = calls + 1
    /\ Goto("capture", "grab")
    /\ CallBegins("capture", "capture_device")
    /\ UNCHANGED <<ret, reads, stageVars, lock_holder, reader, now, capVars, ocrVars, ctxVars>>

\* _capture_loop, lines 84-102 and 115-122: the grab returns a screenshot,
\* or raises and the iteration ends with its sleep.
LkCapGrabbed ==
    /\ lpc["capture"] = "grab"
    /\ CallEnds("capture")
    /\ \/ /\ Goto("capture", "frame_lock")
          /\ UNCHANGED next_capture
       \/ /\ Goto("capture", "idle")
          /\ next_capture' = now + FrameIntervalTicks
    /\ UNCHANGED <<calls, ret, reads, stageVars, lock_holder, reader, now, frame_buffer,
                   frames_appended, frame_count, ocrVars, ctxVars>>

\* _capture_loop, line 105: with self._lock.
LkCapLock ==
    /\ lpc["capture"] = "frame_lock"
    /\ Acquire("frame_lock", "capture")
    /\ Goto("capture", "append")
    /\ UNCHANGED <<calls, ret, reads, stageVars, external, reader, now, capVars, ocrVars, ctxVars>>

\* _capture_loop, lines 106-122: the frame is appended, the lock released,
\* and the iteration ends with its sleep (no frame callback is set).
LkCapAppend ==
    /\ lpc["capture"] = "append"
    /\ frame_buffer' = AppendFrame(frame_buffer, frames_appended, now)
    /\ frames_appended' = frames_appended + 1
    /\ next_capture' = now + FrameIntervalTicks
    /\ Release("frame_lock")
    /\ Goto("capture", "idle")
    /\ UNCHANGED <<calls, ret, reads, stageVars, external, reader, now, frame_count, ocrVars, ctxVars>>

\* process_frame, lines 110-122: a skipped call returns None at once;
\* otherwise the flag is set and extract_text asks for the reader.
LkOcrEnter ==
    /\ lpc["ocr"] = "idle"
    /\ calls < MaxCalls
    /\ calls' = calls + 1
    /\ IF processing \/ RateLimited(last_extraction_time, now)
         THEN UNCHANGED <<processing, lpc>>
         ELSE processing' = TRUE /\ Goto("ocr", "reader_check")
    /\ UNCHANGED <<ret, reads, stageVars, lock_holder, external, reader, now, capVars,
                   text_buffer, texts_appended, last_extraction_time, ocr,
                   attempts, ctxVars>>

\* _get_reader, line 47: the first, unlocked test of self._reader.
LkReaderCheck ==
    /\ lpc["ocr"] = "reader_check"
    /\ Goto("ocr", IF reader = "unset" THEN "reader_lock" ELSE "readtext_call")
    /\ UNCHANGED <<calls, ret, reads, stageVars, lock_holder, external, reader, now, capVars,
                   ocrVars, ctxVars>>

\* _get_reader, line 48: with self._reader_lock.
LkReaderLock ==
    /\ lpc["ocr"] = "reader_lock"
    /\ Acquire("reader_lock", "ocr")
    /\ Goto("ocr", "reader_recheck")
    /\ UNCHANGED <<calls, ret, reads, stageVars, external, reader, now, capVars, ocrVars, ctxVars>>

\* _get_reader, lines 49-51: the second test, made under the lock; when the
\* reader is still unset, easyocr.Reader is called.
LkReaderRecheck ==
    /\ lpc["ocr"] = "reader_recheck"
    /\ IF reader = "unset"
         THEN /\ Goto("ocr", "create_reader")
              /\ CallBegins("ocr", "ocr_reader")
              /\ UNCHANGED lock_holder
         ELSE /\ Goto("ocr", "readtext_call")
              /\ Release("reader_lock")
              /\ UNCHANGED external
    /\ UNCHANGED <<calls, ret, reads, stageVars, reader, now, capVars, ocrVars, ctxVars>>

\* _get_reader, lines 51-57: easyocr.Reader returns and the lock is left;
\* when it raises, extract_text returns ("", 0.0) (lines 95-97) and
\* process_frame returns None through its finally clause.
LkReaderCreated ==
    /\ lpc["ocr"] = "create_reader"
    /\ CallEnds("ocr")
    /\ Release("reader_lock")
    /\ \/ /\ reader' = "ready"
          /\ Goto("ocr", "readtext_call")
          /\ UNCHANGED processing
       \/ /\ reader' = reader
          /\ Goto("ocr", "idle")
          /\ processing' = FALSE
    /\ UNCHANGED <<calls, ret, reads, stageVars, now, capVars, text_buffer, texts_appended,
                   last_extraction_time, ocr, attempts, ctxVars>>

\* extract_text, line 77: reader.readtext is called.
LkReadText ==
    /\ lpc["ocr"] = "readtext_call"
    /\ Goto("ocr", "readtext")
    /\ CallBegins("ocr", "ocr_engine")
    /\ UNCHANGED <<calls, ret, reads, stageVars, lock_holder, reader, now, capVars, ocrVars, ctxVars>>

\* extract_text, lines 77-97, and process_frame, lines 124-138: readtext
\* returns; a blank text (or an exception) ends the call, any other is to
\* be stored.
LkReadTextEnds ==
    /\ lpc["ocr"] = "readtext"
    /\ CallEnds("ocr")
    /\ \/ /\ Goto("ocr", "idle")
          /\ processing' = FALSE
       \/ /\ Goto("ocr", "buffer_lock")
          /\ UNCHANGED processing
    /\ UNCHANGED <<calls, ret, reads, stageVars, lock_holder, reader, now, capVars, text_buffer,
                   texts_appended, last_extraction_time, ocr, attempts, ctxVars>>

\* process_frame, line 125: with self._buffer_lock.
LkBufferLock ==
    /\ lpc["ocr"] = "buffer_lock"
    /\ Acquire("buffer_lock", "ocr")
    /\ Goto("ocr", "store")
    /\ UNCHANGED <<calls, ret, reads, stageVars, external, reader, now, capVars, ocrVars, ctxVars>>

\* process_frame, lines 126-138: the record is appended, the lock released,
\* the extraction time set and the flag cleared.
LkStore(outcomes) ==
    /\ lpc["ocr"] = "store"
    /\ \E out \in {o \in outcomes : Strip(o.text) # <<>>} :
         text_buffer' = StoreRecord(text_buffer, texts_appended, now, out.text,
                                    out.confidence)
    /\ texts_appended' = texts_appended + 1
    /\ last_extraction_time' = now
    /\ processing' = FALSE
    /\ Release("buffer_lock")
    /\ Goto("ocr", "idle")
    /\ UNCHANGED <<calls, ret, reads, stageVars, external, reader, now, capVars, ocr, attempts,
                   ctxVars>>

\* _analyze_text, lines 228-270: the provider is obtained and
\* provider.analyze is called.
LkAnalyze ==
    /\ lpc["analysis"] = "idle"
    /\ calls < MaxCalls
    /\ calls' = calls + 1
    /\ provider' = "ready"
    /\ Goto("analysis", "analyze")
    /\ CallBegins("analysis", "analysis_provider")
    /\ UNCHANGED <<ret, reads, stageVars, lock_holder, reader, now, capVars, ocrVars, ctxState,
                   events_appended, next_cycle, an, finished, ctlVars>>

\* _analyze_text, lines 270-280 and 311-314: provider.analyze returns a text
\* that decodes, or the cycle ends with an exception.
LkAnalyzed ==
    /\ lpc["analysis"] = "analyze"
    /\ CallEnds("analysis")
    /\ \/ Goto("analysis", "context_lock")
       \/ Goto("analysis", "idle")
    /\ UNCHANGED <<calls, ret, reads, stageVars, lock_holder, reader, now, capVars, ocrVars, ctxVars>>

\* _analyze_text, line 283: with self._lock.
LkContextLock ==
    /\ lpc["analysis"] = "context_lock"
    /\ Acquire("context_lock", "analysis")
    /\ Goto("analysis", "merge")
    /\ UNCHANGED <<calls, ret, reads, stageVars, external, reader, now, capVars, ocrVars, ctxVars>>

\* _analyze_text, lines 284-308: the decoded result is merged, the lock
\* released and, unless the merge raised, the analysis time set.
LkMerge(responses) ==
    /\ lpc["analysis"] = "merge"
    /\ \E text \in {r \in responses : ParseResponse(r).ok} :
         LET m == MergeResult(ParseResponse(text).value, current_activity,
                              current_app, key_events, events_appended, now)
         IN /\ current_activity' = m.activity
            /\ current_app' = m.app
            /\ key_events' = m.events
            /\ events_appended' = m.n
            /\ last_analysis_time' = IF m.raised THEN last_analysis_time ELSE now
    /\ Release("context_lock")
    /\ Goto("analysis", "idle")
    /\ UNCHANGED <<calls, ret, reads, stageVars, external, reader, now, capVars, ocrVars,
                   provider, next_cycle, an, finished, ctlVars>>

\* A merge that does not wait for the lock.
MergeLockSkipped(th) ==
    /\ an[th].pc = "merge"
    /\ UNCHANGED <<apiVars, now, capVars, ocrVars, ctxState, events_appended,
                   provider, ctlVars>>
    /\ Proceed(th, "activity", an[th].result)

\* The same merge statement by statement, for two threads that reach it
\* together.  _analyze_text, line 283: with self._lock.
MergeLock(th) ==
    /\ an[th].pc = "merge"
    /\ Acquire("context_lock", th)
    /\ UNCHANGED <<calls, ret, reads, stageVars, external, lpc, reader, now,
                   capVars, ocrVars, ctxState, events_appended, provider, ctlVars>>
    /\ Proceed(th, "activity", an[th].result)

\* _analyze_text, lines 284-285: the two assignments, one step each.  The
\* first result.get raises when the result is no object; the exception
\* leaves the with block, which releases the lock.
MergeAssign(th) ==
    /\ an[th].pc \in {"activity", "application"}
    /\ UNCHANGED <<calls, ret, reads, stageVars, external, lpc, reader, now,
                   capVars, ocrVars, key_events, events_appended,
                   last_analysis_time, provider, ctlVars>>
    /\ LET r == an[th].result
       IN IF an[th].pc = "activity"
            THEN /\ UNCHANGED current_app
                 /\ IF r.top # "object"
                      THEN /\ UNCHANGED current_activity
                           /\ Release("context_lock")
                           /\ EndCycle(th, "shape_error")
                      ELSE /\ current_activity' = Get(r.activity, current_activity)
                           /\ UNCHANGED lock_holder
                           /\ Proceed(th, "application", r)
            ELSE /\ current_app' = Get(r.application, current_app)
                 /\ UNCHANGED <<current_activity, lock_holder>>
                 /\ Proceed(th, "items", r)

\* _analyze_text, lines 288-306: one turn of the loop over key_info, the
\* duplicate check and the append of one item; after the last item the
\* lock is released.  (The clock stands still during a merge, so `now` is
\* the timestamp taken at line 289.)
MergeItem(th) ==
    /\ an[th].pc = "items"
    /\ UNCHANGED <<calls, ret, reads, stageVars, external, lpc, reader, now,
                   capVars, ocrVars, current_activity, current_app,
                   last_analysis_time, provider, ctlVars>>
    /\ LET r == an[th].result
           items == r.key_info.items
       IN IF r.key_info.kind = "scalar" \/ (items # <<>> /\ ~Head(items).obj)
            THEN /\ UNCHANGED <<key_events, events_appended>>
                 /\ Release("context_lock")
                 /\ EndCycle(th, "shape_error")
            ELSE IF r.key_info.kind = "absent" \/ items = <<>>
              THEN /\ UNCHANGED <<key_events, events_appended>>
                   /\ Release("context_lock")
                   /\ Proceed(th, "set_last", r)
              ELSE /\ IF IsDuplicate(key_events, Head(items))
                        THEN UNCHANGED <<key_events, events_appended>>
                        ELSE /\ key_events' =
                                  DequeAppend(key_events,
                                              NewEvent(Head(items), now, events_appended),
                                              MaxHistory)
                             /\ events_appended' = events_appended + 1
                   /\ UNCHANGED lock_holder
                   /\ Proceed(th, "items", [r EXCEPT !.key_info.items = Tail(items)])

\* get_frames_since called by a thread of its own, screen_capture.py:136-152.
\* Until the call returns, `ret` holds what the call has so far: the cutoff
\* (line 146, taken before the lock), then the position of the iteration
\* over the deque and the list being built.
SnapCall(seconds) ==
    /\ lpc["query"] = "idle"
    /\ ret' = [op |-> "called", arg |-> now - seconds, val |-> <<>>]
    /\ Goto("query", "frame_lock")
    /\ UNCHANGED <<calls, reads, stageVars, lock_holder, external, reader, now,
                   capVars, ocrVars, ctxVars>>

\* A get_frames_since that iterates without the lock.
SnapLockSkipped ==
    /\ lpc["query"] = "frame_lock"
    /\ ret' = [op |-> "iterating", arg |-> ret.arg, val |-> [i |-> 0, out |-> <<>>]]
    /\ Goto("query", "iterate")
    /\ UNCHANGED <<calls, reads, stageVars, lock_holder, external, reader, now,
                   capVars, ocrVars, ctxVars>>

\* get_frames_since, line 148: with self._lock.
SnapLock ==
    /\ lpc["query"] = "frame_lock"
    /\ Acquire("frame_lock", "query")
    /\ ret' = [op |-> "iterating", arg |-> ret.arg, val |-> [i |-> 0, out |-> <<>>]]
    /\ Goto("query", "iterate")
    /\ UNCHANGED <<calls, reads, stageVars, external, reader, now, capVars,
                   ocrVars, ctxVars>>

\* get_frames_since, lines 149-152: the list comprehension takes the next
\* item of the deque and keeps it when its timestamp is at or after the
\* cutoff; at the end of the deque the list is returned and the lock left.
SnapIterate ==
    /\ lpc["query"] = "iterate"
    /\ LET i == ret.val.i
           out == ret.val.out
       IN IF i < Len(frame_buffer)
            THEN /\ ret' = [ret EXCEPT !.val =
                            [i |-> i + 1,
                             out |-> IF frame_buffer[i + 1].timestamp >= ret.arg
                                       THEN Append(out, frame_buffer[i + 1])
                                       ELSE out]]
                 /\ UNCHANGED <<lpc, lock_holder>>
            ELSE /\ ret' = [op |-> "get_frames_since", arg |-> ret.arg, val |-> out]
                 /\ Release("frame_lock")
                 /\ Goto("query", "idle")
    /\ UNCHANGED <<calls, reads, stageVars, external, reader, now, capVars,
                   ocrVars, ctxVars>>

\* ---------------------------------------------------------- start and stop
\* ScreenCapture and ContextAnalyzer have the same start() and stop().  A
\* stage's `thread` is what its thread attribute refers to: "none", or a
\* loop thread that is "alive" or has "exited".  `zombies` counts the loop
\* threads stop() stopped waiting for while they were alive, `created` the
\* loop threads ever created, `failed_at` the time of the latest iteration
\* that ended in an exception.
Stages == {"capture", "analyzer"}

NoStage == [thread |-> "none", zombies |-> 0, created |-> 0, pc |-> "idle",
            deadline |-> 0, timed_out |-> FALSE, failed_at |-> NoTime,
            cb_failed_at |-> NoTime]

NoCall == [op |-> "none", stage |-> "none", early |-> FALSE]

Running(s) == IF s = "capture" THEN cap_running ELSE running

SetRunning(s, v) ==
    IF s = "capture"
      THEN cap_running' = v /\ UNCHANGED running
      ELSE running' = v /\ UNCHANGED cap_running

\* The log keeps which messages each stage has printed.
Logged(s, msg) == log' = log \cup {[stage |-> s, msg |-> msg]}

\* start() and stop() are called by one thread, which stop() keeps waiting
\* while it joins.
ControllerFree == \A s \in Stages : stage[s].pc = "idle"

\* A start() that does not test whether the stage is running.
StageStartAlways(s) ==
    /\ ControllerFree
    /\ calls < MaxCalls
    /\ calls' = calls + 1
    /\ called' = [op |-> "start", stage |-> s, early |-> Running(s)]
    /\ SetRunning(s, TRUE)
    /\ stage' = [stage EXCEPT ![s].thread = "alive", ![s].created = @ + 1]
    /\ next_cycle' = IF s = "analyzer" THEN now ELSE next_cycle
    /\ UNCHANGED <<ret, reads, lockVars, log, now, capVars, ocrVars, ctxState,
                   events_appended, provider, an, finished, forces, cycles>>

\* start(), screen_capture.py:56-64 and context_analyzer.py:188-196.
StageStart(s) ==
    /\ ControllerFree
    /\ calls < MaxCalls
    /\ calls' = calls + 1
    /\ called' = [op |-> "start", stage |-> s, early |-> Running(s)]
    /\ IF Running(s)
         THEN UNCHANGED <<running, cap_running, stage, next_cycle>>
         ELSE /\ SetRunning(s, TRUE)
              /\ stage' = [stage EXCEPT ![s].thread = "alive", ![s].created = @ + 1]
              /\ next_cycle' = IF s = "analyzer" THEN now ELSE next_cycle
    /\ UNCHANGED <<ret, reads, lockVars, log, now, capVars, ocrVars, ctxState,
                   events_appended, provider, an, finished, forces, cycles>>

\* stop(), lines 68-70 (200-202): the flag is cleared; with a thread to wait
\* for, join(timeout=2.0) begins, otherwise stop() prints and returns.
StageStop(s) ==
    /\ ControllerFree
    /\ calls < MaxCalls
    /\ calls' = calls + 1
    /\ called' = [op |-> "stop", stage |-> s, early |-> stage[s].thread = "none"]
    /\ SetRunning(s, FALSE)
    /\ IF stage[s].thread # "none"
         THEN /\ stage' = [stage EXCEPT ![s].pc = "joining",
                                        ![s].deadline = now + JoinTimeoutTicks,
                                        ![s].timed_out = FALSE]
              /\ UNCHANGED log
         ELSE /\ UNCHANGED stage
              /\ Logged(s, "stopped")
    /\ UNCHANGED <<ret, reads, lockVars, now, capVars, ocrVars, ctxState,
                   events_appended, provider, next_cycle, an, finished, forces, cycles>>

\* stop(), lines 70-72 (202-204): join returns because the thread has exited
\* or because the timeout has passed; the attribute is cleared and
\* "Stopped" is printed either way.
StageStopReturns(s) ==
    /\ stage[s].pc = "joining"
    /\ stage[s].thread = "exited" \/ now >= stage[s].deadline
    /\ stage' = [stage EXCEPT ![s].pc = "idle",
                              ![s].thread = "none",
                              ![s].timed_out = (stage[s].thread = "alive"),
                              ![s].zombies = IF stage[s].thread = "alive"
                                               THEN @ + 1 ELSE @]
    /\ Logged(s, "stopped")
    /\ UNCHANGED <<calls, called, ret, reads, lockVars, cap_running, now, capVars,
                   ocrVars, ctxVars>>

\* The loops' `while self._running` (screen_capture.py:80,
\* context_analyzer.py:208): a loop thread finds the flag cleared and ends.
\* The analysis loop tests the flag between cycles only.
LoopExits(s) ==
    /\ ~Running(s)
    /\ s = "analyzer" => an["loop"].pc = "idle"
    /\ \/ /\ stage[s].thread = "alive"
          /\ stage' = [stage EXCEPT ![s].thread = "exited"]
       \/ /\ stage[s].zombies > 0
          /\ stage' = [stage EXCEPT ![s].zombies = @ - 1]
    /\ UNCHANGED <<calls, called, ret, reads, lockVars, log, cap_running, now,
                   capVars, ocrVars, ctxVars>>

LoopAlive(s) == stage[s].thread = "alive" \/ stage[s].zombies > 0

\* The analysis loop of a started ContextAnalyzer begins a cycle.
StageLoopFetch ==
    /\ LoopAlive("analyzer")
    /\ LoopFetch(CycleTexts)

\* A capture iteration of a started ScreenCapture whose grab succeeds.
StageCapture ==
    /\ LoopAlive("capture")
    /\ cap_running
    /\ CaptureIteration(FALSE)
    /\ UNCHANGED <<apiVars, stageVars>>

\* An iteration that ends in the loop's own failure, leaving the thread.
StageCaptureFailStops ==
    /\ stage["capture"].thread = "alive"
    /\ cap_running
    /\ now >= next_capture
    /\ Logged("capture", "capture_error")
    /\ stage' = [stage EXCEPT !["capture"].thread = "exited",
                              !["capture"].failed_at = now]
    /\ UNCHANGED <<calls, ret, reads, lockVars, called, cap_running, now, capVars,
                   ocrVars, ctxVars>>

\* _capture_loop, lines 83-122: the grab (or the conversion) raises; the
\* handler at lines 115-116 prints and the iteration ends with its sleep.
StageCaptureFail ==
    /\ LoopAlive("capture")
    /\ cap_running
    /\ now >= next_capture
    /\ Logged("capture", "capture_error")
    /\ stage' = [stage EXCEPT !["capture"].failed_at = now]
    /\ next_capture' = now + FrameIntervalTicks
    /\ UNCHANGED <<calls, ret, reads, lockVars, called, cap_running, now,
                   frame_buffer,
                   frames_appended, frame_count, ocrVars, ctxVars>>

\* An iteration whose callback failure ends the loop and drops the frame.
StageCallbackFailAborts ==
    /\ stage["capture"].thread = "alive"
    /\ cap_running
    /\ frames_appended < MaxFrames
    /\ now >= next_capture
    /\ Logged("capture", "callback_error")
    /\ stage' = [stage EXCEPT !["capture"].thread = "exited",
                              !["capture"].cb_failed_at = now]
    /\ UNCHANGED <<calls, ret, reads, lockVars, called, cap_running, now, capVars,
                   ocrVars, ctxVars>>

\* _capture_loop, lines 102-113: the frame is appended under the lock, then
\* the subscriber's callback raises; the inner handler prints and the
\* iteration ends with its sleep.  The callback raises on entry, or (as
\* _on_frame_captured can, at Thread.start) after it has counted the frame.
StageCallbackFail ==
    /\ LoopAlive("capture")
    /\ cap_running
    /\ frames_appended < MaxFrames
    /\ now >= next_capture
    /\ frame_buffer' = AppendFrame(frame_buffer, frames_appended, now)
    /\ frames_appended' = frames_appended + 1
    /\ \E counted \in BOOLEAN :
         frame_count' = IF counted THEN frame_count + 1 ELSE frame_count
    /\ Logged("capture", "callback_error")
    /\ stage' = [stage EXCEPT !["capture"].cb_failed_at = now]
    /\ next_capture' = now + FrameIntervalTicks
    /\ UNCHANGED <<calls, ret, reads, lockVars, called, cap_running, now,
                   ocrVars, ctxVars>>

\* Time passes, up to the horizon `max`; a pending join does not outlast
\* its timeout.
StageTick(max) ==
    /\ now < max
    /\ \A s \in Stages : stage[s].pc = "joining" => now < stage[s].deadline
    /\ now' = now + 1
    /\ UNCHANGED <<apiVars, stageVars, capVars, ocrVars, ctxVars>>

\* A timer some thread is waiting on: a join that has not timed out, or the
\* sleep of a loop thread (time.sleep at context_analyzer.py:218 and
\* screen_capture.py:122).
PendingTimer ==
    \/ \E s \in Stages : stage[s].pc = "joining" /\ now < stage[s].deadline
    \/ LoopAlive("analyzer") /\ an["loop"].pc = "idle" /\ now < next_cycle
    \/ LoopAlive("capture") /\ now < next_capture

\* Time passes up to the horizon `max`, and beyond it for as long as a
\* thread is waiting on a timer; a pending join does not outlast its
\* timeout.
TimerTick(max) ==
    /\ now < max \/ PendingTimer
    /\ \A s \in Stages : stage[s].pc = "joining" => now < stage[s].deadline
    /\ now' = now + 1
    /\ UNCHANGED <<apiVars, stageVars, capVars, ocrVars, ctxVars>>

\* The instant a stage's loop thread next tests its flag: the end of its
\* sleep.
WakeUp(s) == IF s = "capture" THEN next_capture ELSE next_cycle

\* A loop thread that never tests the flag.
StageLoopNeverExits(s) ==
    /\ FALSE
    /\ UNCHANGED vars

\* `while self._running` tested at the loop thread's wake-up: with the flag
\* cleared the thread leaves the loop and ends.
StageLoopExit(s) ==
    /\ now >= WakeUp(s)
    /\ LoopExits(s)

\* ------------------------------------------------------ returned snapshots
\* A get_current_context that hands over the key events and empties them.
GetCurrentContextDrains ==
    /\ calls < MaxCalls
    /\ Len(reads) < MaxReads
    /\ calls' = calls + 1
    /\ ret' = [op |-> "get_current_context", arg |-> 0, val |-> CurrentContext]
    /\ reads' = Append(reads, [val |-> CurrentContext, cycle |-> forces,
                               during |-> FALSE, outcome |-> finished.outcome])
    /\ key_events' = <<>>
    /\ UNCHANGED <<lockVars, stageVars, now, capVars, ocrVars, current_activity,
                   current_app, last_analysis_time, events_appended, provider,
                   next_cycle, an, finished, ctlVars>>

\* get_current_context, context_analyzer.py:316-329, called while no other
\* call is under way.  `ret` is what the call returned; `reads` holds the
\* returned dictionaries, which the caller keeps.
GetCurrentContext ==
    /\ calls < MaxCalls
    /\ Len(reads) < MaxReads
    /\ calls' = calls + 1
    /\ ret' = [op |-> "get_current_context", arg |-> 0, val |-> CurrentContext]
    /\ reads' = Append(reads, [val |-> CurrentContext, cycle |-> forces,
                               during |-> FALSE, outcome |-> finished.outcome])
    /\ UNCHANGED <<lockVars, stageVars, now, capVars, ocrVars, ctxVars>>

\* `list(self.key_events)` at line 327 makes a new list of the same event
\* dictionaries: an event appended as the n-th is one object, wherever it is
\* held.  Assigning event['value'] changes that object in every list.
EditEvent(events, n) ==
    [j \in DOMAIN events |->
        IF events[j].n = n THEN [events[j] EXCEPT !.value = "edited"]
                           ELSE events[j]]

\* The caller removes the first element of a returned key_events list.
CallerEditsList(k) ==
    /\ k \in DOMAIN reads
    /\ reads[k].val.key_events # <<>>
    /\ reads' = [reads EXCEPT ![k].val.key_events = Tail(@)]
    /\ UNCHANGED <<calls, ret, lockVars, stageVars, now, capVars, ocrVars, ctxVars>>

\* The caller assigns the 'value' of the i-th event of a returned list.
CallerEditsEvent(k, i) ==
    /\ k \in DOMAIN reads
    /\ i \in DOMAIN reads[k].val.key_events
    /\ reads[k].val.key_events[i].value # "edited"
    /\ LET n == reads[k].val.key_events[i].n
       IN /\ reads' = [j \in DOMAIN reads |->
                         [reads[j] EXCEPT !.val.key_events = EditEvent(@, n)]]
          /\ key_events' = EditEvent(key_events, n)
          /\ ret' = IF EditEvent(key_events, n) = key_events THEN ret ELSE NoRet
    /\ UNCHANGED <<calls, lockVars, stageVars, now, capVars, ocrVars,
                   current_activity, current_app, last_analysis_time,
                   events_appended, provider, next_cycle, an, finished, ctlVars>>

\* ------------------------------------------------------------ buffer stats
\* Stats that take the newest frame for the oldest.
FrameStatsNewestOnly(buf) ==
    IF buf = <<>>
      THEN [frame_count |-> 0, duration_ticks |-> 0,
            oldest_timestamp |-> NoTime, newest_timestamp |-> NoTime]
      ELSE [frame_count |-> Len(buf), duration_ticks |-> 0,
            oldest_timestamp |-> buf[Len(buf)].timestamp,
            newest_timestamp |-> buf[Len(buf)].timestamp]

\* ScreenCapture.get_buffer_stats, screen_capture.py:154-173.  The duration
\* is kept in ticks.
FrameStats(buf) ==
    IF buf = <<>>
      THEN [frame_count |-> 0, duration_ticks |-> 0,
            oldest_timestamp |-> NoTime, newest_timestamp |-> NoTime]
      ELSE LET oldest == buf[1].timestamp
               newest == buf[Len(buf)].timestamp
           IN [frame_count |-> Len(buf), duration_ticks |-> newest - oldest,
               oldest_timestamp |-> oldest, newest_timestamp |-> newest]

RECURSIVE TotalCharacters(_)
TotalCharacters(buf) ==
    IF buf = <<>> THEN 0 ELSE Len(Head(buf).text) + TotalCharacters(Tail(buf))

RECURSIVE TotalConfidence(_)
TotalConfidence(buf) ==
    IF buf = <<>> THEN 0 ELSE Head(buf).confidence + TotalConfidence(Tail(buf))

\* OCRExtractor.get_buffer_stats, ocr_extractor.py:185-202.  The average is
\* kept as the quotient it is computed from; 0.0 is 0 over 1.
TextStats(buf) ==
    IF buf = <<>>
      THEN [entry_count |-> 0, total_characters |-> 0,
            avg_confidence |-> [num |-> 0, den |-> 1]]
      ELSE [entry_count |-> Len(buf), total_characters |-> TotalCharacters(buf),
            avg_confidence |-> [num |-> TotalConfidence(buf), den |-> Len(buf)]]

GetFrameBufferStats ==
    Returns("frame_buffer_stats", 0, FrameStats(frame_buffer))

GetTextBufferStats ==
    Returns("text_buffer_stats", 0, TextStats(text_buffer))

\* Texts of different lengths and confidences for the stats.
StatsOutcomes ==
    { [text |-> <<>>, confidence |-> 0],
      [text |-> <<"a">>, confidence |-> 90],
      [text |-> <<"a", "b">>, confidence |-> 50] }

\* --------------------------------------------------- queries under locks
\* A query is one critical section: it takes the lock of its structure,
\* copies and returns (screen_capture.py:131-134, 148-152, 156-173,
\* ocr_extractor.py:152-156, 187-202, context_analyzer.py:323-329, 343-347).
\* It can run when no other thread holds that lock.
LockedQuery ==
    \/ /\ lock_holder["frame_lock"] = "none"
          /\ \/ GetFramesSince(MaxCtxTime)
             \/ GetFrameBufferStats
    \/ /\ lock_holder["buffer_lock"] = "none"
          /\ \/ GetRecentText(MaxCtxTime)
             \/ GetTextBufferStats
    \/ /\ lock_holder["context_lock"] = "none"
          /\ \/ Returns("get_current_context", 0, CurrentContext)
             \/ GetRecentKeyEvents(MaxCtxTime)

\* ------------------------------------------------------------ prompt text
\* _analyze_text, lines 230-233: the screen text as it is embedded in the
\* prompt.
TruncateText(text) ==
    IF Len(text) > MaxTextLength
      THEN SubSeq(text, 1, MaxTextLength) \o <<".", ".", ".">>
      ELSE text

\* A screen text of n characters: c repeated, ending in "b".
ScreenText(c, n) == [i \in 1..n |-> IF i = n THEN "b" ELSE c]

\* Screen texts of lengths around the empty text and around the limit.
PromptTexts ==
    { ScreenText(c, n) : c \in {"a", " "},
                         n \in (0..5) \cup ((MaxTextLength - 4)..(MaxTextLength + 5)) }

\* _analyze_text builds its prompt from `text`: what went in and what was
\* embedded.
EmbedText(text) ==
    /\ calls < MaxCalls
    /\ calls' = calls + 1
    /\ ret' = [op |-> "analyze_text", arg |-> Len(text),
               val |-> [text |-> text, embedded |-> TruncateText(text)]]
    /\ UNCHANGED <<obsVars, now, capVars, ocrVars, ctxVars>>

\* ----------------------------------------------------------- specification
Init ==
    /\ now = 0
    /\ frame_buffer = <<>>
    /\ next_capture = 0
    /\ frames_appended = 0
    /\ frame_count = 0
    /\ text_buffer = <<>>
    /\ texts_appended = 0
    /\ processing = FALSE
    /\ last_extraction_time = NoTime
    /\ ocr = [t \in Threads |-> NoThread]
    /\ attempts = <<>>
    /\ current_activity = "Starting up..."
    /\ current_app = "Unknown"
    /\ key_events = <<>>
    /\ events_appended = 0
    /\ last_analysis_time = NoTime
    /\ provider = "unset"
    /\ running = FALSE
    /\ next_cycle = 0
    /\ an = [th \in AnThreads |-> NoCycle]
    /\ forces = 0
    /\ cycles = 0
    /\ finished = NoneFinished
    /\ calls = 0
    /\ ret = NoRet
    /\ reads = <<>>
    /\ lock_holder = [l \in Locks |-> "none"]
    /\ external = [t \in LkThreads |-> "none"]
    /\ lpc = [t \in LkThreads |-> "idle"]
    /\ reader = "unset"
    /\ cap_running = FALSE
    /\ stage = [s \in Stages |-> NoStage]
    /\ called = NoCall
    /\ log = {}

OcrStep(t) ==
    \/ CheckProcessing(t)
    \/ CheckRate(t)
    \/ SetFlag(t)
    \/ Extract(t)
    \/ Store(t)
    \/ SetLast(t)
    \/ Finally(t)

NextOCR ==
    \/ Tick(MaxTime)
    \/ CaptureFrame
    \/ CaptureFail
    \/ \E t \in Threads : OcrStep(t)

SpecOCR == Init /\ [][NextOCR]_vars

AnStep(th) ==
    \/ GetProvider(th)
    \/ CallAnalysis(th, CtxResponses)
    \/ Merge(th)
    \/ SetLastAnalysis(th)

NextCtx ==
    \/ Tick(MaxCtxTime)
    \/ StartAnalyzer
    \/ LoopFetch(CycleTexts)
    \/ ForceStart(CycleTexts)
    \/ \E th \in AnThreads : AnStep(th)

SpecCtx == Init /\ [][NextCtx]_vars

\* The three components called one call at a time.
NextBuf ==
    \/ ApiTick(MaxTime)
    \/ CaptureCall
    \/ \E timestamp \in FrameTimes : ProcessFrameCall(timestamp, BufOutcomes)
    \/ ForceAnalyzeCall(BufResponses)

SpecBuf == Init /\ [][NextBuf]_vars

\* The same calls with the time-filtered queries in between.
NextQuery ==
    \/ ApiTick(MaxQueryTime)
    \/ CaptureCall
    \/ \E timestamp \in FrameTimes : ProcessFrameCall(timestamp, BufOutcomes)
    \/ ForceAnalyzeCall(BufResponses)
    \/ \E w \in Windows(MaxQueryTime) : GetFramesSince(w)
    \/ \E w \in Windows(MaxQueryTime) : GetRecentText(w)
    \/ \E w \in Windows(MaxQueryTime) : GetRecentKeyEvents(w)

SpecQuery == Init /\ [][NextQuery]_vars

\* The OCRExtractor alone, called one call at a time.
NextText ==
    \/ ApiTick(MaxTime)
    \/ \E timestamp \in FrameTimes : ProcessFrameCall(timestamp, TextOutcomes)
    \/ \E w \in Windows(MaxTime) : GetCombinedText(w)

SpecText == Init /\ [][NextText]_vars

\* force_analyze called with the periodic loop started or not, at any time.
NextForce ==
    \/ ApiTick(MaxQueryTime)
    \/ StartAnalyzer
    \/ ForceAnalyzeCall(ForceResponses)

SpecForce == Init /\ [][NextForce]_vars

\* The three stages' threads with their locks and external calls.
NextLock ==
    \/ Tick(MaxCtxTime)
    \/ LkCapGrab
    \/ LkCapGrabbed
    \/ LkCapLock
    \/ LkCapAppend
    \/ LkOcrEnter
    \/ LkReaderCheck
    \/ LkReaderLock
    \/ LkReaderRecheck
    \/ LkReaderCreated
    \/ LkReadText
    \/ LkReadTextEnds
    \/ LkBufferLock
    \/ LkStore(BufOutcomes)
    \/ LkAnalyze
    \/ LkAnalyzed
    \/ LkContextLock
    \/ LkMerge(BufResponses)

SpecLock == Init /\ [][NextLock]_vars

\* The two stages started and stopped by one thread.
NextStage ==
    \/ StageTick(MaxTime)
    \/ \E s \in Stages : StageStart(s)
    \/ \E s \in Stages : StageStop(s)
    \/ \E s \in Stages : StageStopReturns(s)
    \/ \E s \in Stages : LoopExits(s)

SpecStage == Init /\ [][NextStage]_vars

\* A ScreenCapture started and stopped, with the iterations of its loop.
NextLoop ==
    \/ StageTick(MaxQueryTime)
    \/ StageStart("capture")
    \/ StageStop("capture")
    \/ StageStopReturns("capture")
    \/ LoopExits("capture")
    \/ StageCapture
    \/ StageCaptureFail
    \/ StageCallbackFail

SpecLoop == Init /\ [][NextLoop]_vars

\* A caller of the analyzer that keeps and edits the snapshots it was given.
NextSnap ==
    \/ ApiTick(MaxQueryTime)
    \/ ForceAnalyzeCall(BufResponses)
    \/ GetCurrentContext
    \/ \E k \in 1..MaxReads : CallerEditsList(k)
    \/ \E k \in 1..MaxReads : \E i \in 1..MaxHistory : CallerEditsEvent(k, i)

SpecSnap == Init /\ [][NextSnap]_vars

\* The two buffers filled one call at a time, with their stats queried.
NextStats ==
    \/ ApiTick(MaxQueryTime)
    \/ CaptureCall
    \/ \E timestamp \in FrameTimes : ProcessFrameCall(timestamp, StatsOutcomes)
    \/ GetFrameBufferStats
    \/ GetTextBufferStats

SpecStats == Init /\ [][NextStats]_vars

\* A ContextAnalyzer started and stopped, with the cycles of its loop.  The
\* clock advances, a loop thread that can begin a cycle does so, and a
\* cycle under way takes its next step (the provider's calls return).
NextLive ==
    \/ StageTick(MaxCtxTime)
    \/ StageStart("analyzer")
    \/ StageStop("analyzer")
    \/ StageStopReturns("analyzer")
    \/ LoopExits("analyzer")
    \/ StageLoopFetch
    \/ AnStep("loop")

SpecLive ==
    /\ Init /\ [][NextLive]_vars
    /\ WF_vars(StageTick(MaxCtxTime))
    /\ WF_vars(StageLoopFetch)
    /\ WF_vars(AnStep("loop"))

\* Prompts built from screen texts of many lengths.
NextPrompt ==
    \/ ApiTick(MaxQueryTime)
    \/ \E text \in PromptTexts : EmbedText(text)

SpecPrompt == Init /\ [][NextPrompt]_vars

\* The capture loop and the analysis loop, each with its failures.
NextRetry ==
    \/ Tick(MaxCtxTime)
    \/ CaptureFrame
    \/ CaptureFail
    \/ StartAnalyzer
    \/ LoopFetch(CycleTexts)
    \/ AnStep("loop")

SpecRetry == Init /\ [][NextRetry]_vars

\* A step of the analysis loop's cycle, the provider answering with the
\* stub's object or with a text that is no JSON.
HaltStep ==
    \/ GetProvider("loop")
    \/ CallAnalysis("loop", ForceResponses)
    \/ Merge("loop")
    \/ SetLastAnalysis("loop")

\* start() of the one stage a run exercises: the stages share no state, and
\* each run starts and stops either the ScreenCapture or the ContextAnalyzer.
HaltStart(s) ==
    /\ \A o \in Stages \ {s} : stage[o].created = 0
    /\ StageStart(s)

\* stop() of the stage that was started.
HaltStop(s) ==
    /\ stage[s].created > 0
    /\ StageStop(s)

\* Either stage started and stopped, its loop iterating, sleeping and
\* leaving.  Timers run out, a join returns, a loop thread that has woken
\* with its flag cleared leaves, and a cycle under way takes its next step
\* (the provider's calls return).
NextHalt ==
    \/ TimerTick(MaxCtxTime)
    \/ \E s \in Stages : HaltStart(s)
    \/ \E s \in Stages : HaltStop(s)
    \/ \E s \in Stages : StageStopReturns(s)
    \/ \E s \in Stages : StageLoopExit(s)
    \/ StageCapture
    \/ StageLoopFetch
    \/ HaltStep

SpecHalt ==
    /\ Init /\ [][NextHalt]_vars
    /\ WF_vars(TimerTick(MaxCtxTime))
    /\ \A s \in Stages : WF_vars(StageStopReturns(s))
    /\ \A s \in Stages : WF_vars(StageLoopExit(s))
    /\ WF_vars(HaltStep)

\* The capture loop dispatching to the per-frame OCR threads, the analysis
\* thread with its calls and its lock, and a caller of the queries.  A
\* critical section that contains no call (the frame append, the record
\* append) is one step.
NextStall ==
    \/ Tick(MaxCtxTime)
    \/ CaptureFrame
    \/ \E t \in Threads : OcrStep(t)
    \/ LkAnalyze
    \/ LkAnalyzed
    \/ LkContextLock
    \/ LkMerge(ForceResponses)
    \/ LockedQuery

SpecStall == Init /\ [][NextStall]_vars

\* The analysis loop woken exactly when its sleep ends (line 218): a cycle
\* begins at the instant next_cycle, which then stays the start of the
\* cycle under way until the cycle ends.
PunctualFetch ==
    /\ now = next_cycle
    /\ LoopFetch(CycleTexts)

\* The analysis loop on its own, woken on time, its calls taking time.
NextPeriod ==
    \/ Tick(MaxCtxTime)
    \/ StartAnalyzer
    \/ PunctualFetch
    \/ AnStep("loop")

SpecPeriod == Init /\ [][NextPeriod]_vars

\* The capture loop of an application whose analyzer is not started.
FaultCapture ==
    /\ ~running /\ cycles = 0
    /\ CaptureFrame

\* start() of the analyzer of an application that captures nothing.
FaultStart ==
    /\ frames_appended = 0
    /\ StartAnalyzer

\* The background threads with their failures: either the capture loop and
\* the per-frame OCR threads, whose engine may raise, or the analysis loop,
\* whose text callback, provider and merge may raise.  The two chains meet
\* only in the text the callback returns.
NextFault ==
    \/ Tick(MaxTime)
    \/ FaultCapture
    \/ \E t \in Threads : OcrStep(t)
    \/ FaultStart
    \/ LoopFetch(CycleTexts)
    \/ LoopFetchFails
    \/ AnStep("loop")

SpecFault == Init /\ [][NextFault]_vars

\* Every read operation of the three components, called between the calls
\* that write.
NextPure ==
    \/ ApiTick(MaxQueryTime)
    \/ CaptureCall
    \/ \E timestamp \in FrameTimes : ProcessFrameCall(timestamp, BufOutcomes)
    \/ ForceAnalyzeCall(BufResponses)
    \/ \E w \in {0, MaxQueryTime} : GetFramesSince(w)
    \/ GetLatestFrame
    \/ \E w \in {0, MaxQueryTime} : GetRecentText(w)
    \/ \E w \in {0, MaxQueryTime} : GetCombinedText(w)
    \/ GetFrameBufferStats
    \/ GetTextBufferStats
    \/ Returns("get_current_context", 0, CurrentContext)
    \/ \E w \in {0, MaxQueryTime} : GetRecentKeyEvents(w)

SpecPure == Init /\ [][NextPure]_vars

\* The capture loop appending to a full buffer under its lock while another
\* thread takes time-filtered snapshots.
NextShot ==
    \/ Tick(MaxCtxTime)
    \/ LkCapGrab
    \/ LkCapGrabbed
    \/ LkCapLock
    \/ LkCapAppend
    \/ \E seconds \in {0, 1, MaxCtxTime} : SnapCall(seconds)
    \/ SnapLock
    \/ SnapIterate

SpecShot == Init /\ [][NextShot]_vars

\* What the provider returns to a periodic cycle and to a force_analyze that
\* run together.
MergeResponses ==
    { <<JsonText(r)>> :
        r \in { Banking(<<ItemA, ItemEmail>>),
                Banking(<<ItemNoType>>),
                Result(Field("coding"), Field("Editor"), KeyInfo("list", <<ItemB, ItemName>>)),
                Result(Field("reading"), NoField, KeyInfo("absent", <<>>)),
                NotAnObjectResult } }

\* A periodic cycle and a force_analyze, their merges statement by statement.
NextMerge ==
    \/ StartAnalyzer
    \/ LoopFetch(CycleTexts)
    \/ ForceStart(CycleTexts)
    \/ \E th \in AnThreads :
         \/ GetProvider(th)
         \/ CallAnalysis(th, MergeResponses)
         \/ MergeLock(th)
         \/ MergeAssign(th)
         \/ MergeItem(th)
         \/ SetLastAnalysis(th)

SpecMerge == Init /\ [][NextMerge]_vars

\* force_analyze on one thread, a reader of the context on another.
NextRead ==
    \/ Tick(MaxCtxTime)
    \/ ForceStart(CycleTexts)
    \/ AnStep("force")
    \/ ReadContext

SpecRead == Init /\ [][NextRead]_vars

\* ================================================================== claims

\* ----------------------------------------------------------------------
\* C1: at most one call of process_frame is inside the OCR engine at any
\* time, for any interleaving of the per-frame OCR threads.
InFlight == {t \in Threads : ocr[t].pc = "extract"}

C1_SingleFlight == Cardinality(InFlight) <= 1

\* ----------------------------------------------------------------------
\* C2: two extraction attempts, the later one made by a call that began its
\* checks after the earlier call had returned, start at least one second
\* apart, whatever the earlier attempt produced (a stored record, a blank
\* text or an OCR error).
C2_MinInterval ==
    \A i, j \in 1..Len(attempts) :
        (i < j /\ attempts[i].end # NoTime
               /\ attempts[i].end <= attempts[j].chk_now)
            => attempts[j].start - attempts[i].start >= MinExtractionTicks

\* ----------------------------------------------------------------------
\* C3: only frames whose ordinal is a multiple of 3 start an OCR call, an
\* attempt is made only after the rate-limit check found no extraction in
\* the last second, and the first three frames yield exactly one attempt.
C3_EveryThirdFrame ==
    /\ \A t \in Threads : ocr[t].pc # "unborn" => t % 3 = 0
    /\ \A i \in 1..Len(attempts) :
          /\ attempts[i].frame % 3 = 0
          /\ \/ attempts[i].chk_last = NoTime
             \/ attempts[i].chk_now - attempts[i].chk_last >= CAPTURE_FPS
    /\ frame_count < 3 => attempts = <<>>
    /\ (frame_count \in 3..5 /\ ocr[3].pc = "done") => Len(attempts) = 1

C3_Witness ==
    /\ frame_count = 3
    /\ ocr[3].pc = "done"
    /\ Len(attempts) = 1
    /\ attempts[1].frame = 3

\* ----------------------------------------------------------------------
\* C4: a skipped process_frame call (in-flight or rate-limited) returns
\* None and changes neither text_buffer, nor the last-extraction time, nor
\* the in-flight flag, nor the attempts made; a call that has returned
\* never runs again.
SkipStep(t) ==
    /\ ocr[t].pc \in {"check_processing", "check_rate"}
    /\ ocr'[t].pc = "done"

C4_SkipIsNoOp ==
    [][\A t \in Threads :
          /\ SkipStep(t) =>
                /\ ocr'[t].result = ReturnNone
                /\ text_buffer' = text_buffer
                /\ last_extraction_time' = last_extraction_time
                /\ processing' = processing
                /\ attempts' = attempts
          /\ ocr[t].pc = "done" => ocr'[t] = ocr[t]]_vars

Skipped(t) ==
    /\ ocr[t].pc = "done"
    /\ \A i \in 1..Len(attempts) : attempts[i].frame # t

C4_Witness ==
    \E t \in Threads :
        /\ Skipped(t)
        /\ processing
        /\ InFlight # {}

\* ----------------------------------------------------------------------
\* C5: after N appends a buffer of capacity C holds min(N, C) items, the
\* most recently appended ones, oldest first.  Appends are numbered by the
\* serial `n` each item carries.
Min(a, b) == IF a <= b THEN a ELSE b

BufferIsRecent(buf, appended, cap) ==
    /\ Len(buf) = Min(appended, cap)
    /\ \A i \in 1..Len(buf) : buf[i].n = appended - Len(buf) + i

C5_BuffersKeepMostRecent ==
    /\ BufferIsRecent(frame_buffer, frames_appended, MaxFrameBuffer)
    /\ BufferIsRecent(text_buffer, texts_appended, MaxTextBuffer)
    /\ BufferIsRecent(key_events, events_appended, MaxHistory)

C5_Witness ==
    /\ frames_appended > MaxFrameBuffer
    /\ Len(frame_buffer) = MaxFrameBuffer
    /\ frame_buffer[1].n = frames_appended - MaxFrameBuffer + 1

\* ----------------------------------------------------------------------
\* C6: a time-filtered query returns exactly the buffered items whose
\* timestamp is at or after now minus the window, in buffer order: nothing
\* when the cutoff is after every timestamp, everything when it is before.
RECURSIVE Ordered(_)
Ordered(S) ==
    IF S = {} THEN <<>>
    ELSE LET m == CHOOSE x \in S : \A y \in S : x <= y
         IN <<m>> \o Ordered(S \ {m})

IsFilterOf(res, buf, cutoff) ==
    LET keep == Ordered({i \in 1..Len(buf) : buf[i].timestamp >= cutoff})
    IN /\ Len(res) = Len(keep)
       /\ \A k \in 1..Len(res) : res[k] = buf[keep[k]]
       /\ (\A i \in 1..Len(buf) : buf[i].timestamp < cutoff) => res = <<>>
       /\ (\A i \in 1..Len(buf) : buf[i].timestamp >= cutoff) => res = buf

C6_QueriesFilterByCutoff ==
    /\ ret.op = "get_frames_since" => IsFilterOf(ret.val, frame_buffer, now - ret.arg)
    /\ ret.op = "get_recent_text" => IsFilterOf(ret.val, text_buffer, now - ret.arg)
    /\ ret.op = "get_recent_key_events" => IsFilterOf(ret.val, key_events, now - ret.arg)

\* A query that keeps the newer of two records, the kept one lying exactly
\* at the cutoff.
C6_Witness ==
    /\ ret.op = "get_recent_text"
    /\ Len(text_buffer) = 2
    /\ ret.val = <<text_buffer[2]>>
    /\ text_buffer[2].timestamp = now - ret.arg

\* ----------------------------------------------------------------------
\* C7: get_combined_text returns the texts of the window's records, in
\* order, keeping a record only if no earlier record of the window has the
\* same key.
FirstOfKey(recs, Key(_)) ==
    {i \in 1..Len(recs) : \A j \in 1..(i - 1) : Key(recs[j].text) # Key(recs[i].text)}

KeptTexts(recs, Key(_)) ==
    LET keep == Ordered(FirstOfKey(recs, Key))
    IN [k \in 1..Len(keep) |-> Strip(recs[keep[k]].text)]

\* The key as stated: the lower-cased first 50 characters of the text.
TextKey(text) == Lower(Prefix(text, KeyPrefixLen))

\* The key of the code: the same, of the text with the whitespace at its
\* ends stripped.
StrippedTextKey(text) == Lower(Prefix(Strip(text), KeyPrefixLen))

C7_KeyOfRecordText ==
    ret.op = "get_combined_text" =>
        ret.val = Join(KeptTexts(RecentText(text_buffer, now, ret.arg), TextKey))

\* C7, amended: the key is taken from the stripped text.
C7_KeyOfStrippedText ==
    ret.op = "get_combined_text" =>
        /\ ret.val = Join(KeptTexts(RecentText(text_buffer, now, ret.arg),
                                    StrippedTextKey))
        /\ RecentText(text_buffer, now, ret.arg) = <<>> => ret.val = <<>>

\* Two records of the window differ only after the 50th character, and only
\* the first is returned.
C7_Witness ==
    /\ ret.op = "get_combined_text"
    /\ Len(text_buffer) = 2
    /\ RecentText(text_buffer, now, ret.arg) = text_buffer
    /\ text_buffer[1].text # text_buffer[2].text
    /\ Len(text_buffer[1].text) > KeyPrefixLen
    /\ ret.val = text_buffer[1].text

\* ----------------------------------------------------------------------
\* C8: no two events held in key_events have the same (type, value).
C8_UniqueKeyEvents ==
    \A i, j \in 1..Len(key_events) :
        i < j => ~(/\ key_events[i].type = key_events[j].type
                   /\ key_events[i].value = key_events[j].value)

\* ----------------------------------------------------------------------
\* C9: a cycle whose analysis call raised, or whose response could not be
\* decoded as JSON, has changed none of activity, application, key_events
\* and last_analysis.
C9_FailedCycleKeepsState ==
    finished.outcome \in {"transport_error", "decode_error"} => ~finished.touched

C9_Witness ==
    /\ finished.outcome = "decode_error"
    /\ last_analysis_time # NoTime
    /\ now > last_analysis_time
    /\ key_events # <<>>
    /\ current_activity = "banking"

\* ----------------------------------------------------------------------
\* C10: a cycle whose response decoded to JSON of the wrong shape has
\* changed none of activity, application, key_events and last_analysis.
C10_NonConformingKeepsState ==
    finished.outcome = "shape_error" => ~finished.touched

\* ----------------------------------------------------------------------
\* C11: a snapshot read while a cycle that went on to merge was under way
\* equals the snapshot read before that cycle or the one read after it.
C11_NoMixedSnapshot ==
    \A i, j, k \in 1..Len(reads) :
        (/\ i < j /\ j < k
         /\ ~reads[i].during /\ reads[i].cycle = reads[j].cycle - 1
         /\ reads[j].during
         /\ ~reads[k].during /\ reads[k].cycle = reads[j].cycle
         /\ reads[k].outcome = "merged")
            => reads[j].val \in {reads[i].val, reads[k].val}

\* ----------------------------------------------------------------------
\* C12: last_analysis changes only in the step that ends a cycle whose
\* merge completed, and that step sets it to the current time; a cycle
\* skipped as blank or ended by a failure leaves it as it was.
CycleEnds(th) == an[th].pc # "idle" /\ an'[th].pc = "idle"

BlankSkip == cycles' = cycles + 1 /\ an'["loop"].pc = "idle"

C12_LastAnalysisOnlyOnMerge ==
    [][/\ last_analysis_time' # last_analysis_time =>
            \E th \in AnThreads : an[th].pc = "set_last" /\ CycleEnds(th)
       /\ \A th \in AnThreads :
            /\ (an'[th].pc = "set_last" /\ an[th].pc # "set_last") =>
                    an[th].pc = "merge"
            /\ CycleEnds(th) =>
                    IF an[th].pc = "set_last"
                      THEN last_analysis_time' = now /\ finished'.outcome = "merged"
                      ELSE /\ last_analysis_time' = last_analysis_time
                           /\ finished'.outcome \in {"provider_error", "transport_error",
                                                     "decode_error", "shape_error"}
       /\ BlankSkip => /\ last_analysis_time' = last_analysis_time
                       /\ finished'.outcome = "blank"]_vars

C12_Witness ==
    /\ finished.outcome = "blank"
    /\ last_analysis_time # NoTime
    /\ now > last_analysis_time

\* ----------------------------------------------------------------------
\* C13: a cycle whose text is empty or whitespace-only never obtains a
\* provider nor calls the analysis, and changes nothing of the context.
C13_BlankCycleSkipped ==
    \A th \in AnThreads :
        an[th].blank => /\ an[th].pc \notin {"call", "merge", "set_last"}
                        /\ ~an[th].touched

\* ----------------------------------------------------------------------
\* C14: force_analyze returns the context as it is after its cycle; when
\* the cycle merged the stub's response, the returned key_events holds
\* exactly one event with value "999111" and the returned activity and
\* application are the stub's.
C14_ForceAnalyzeReturnsPostCycle ==
    ret.op = "force_analyze" =>
        /\ ret.val = CurrentContext
        /\ ret.val.last_analysis = now =>
              /\ Cardinality({i \in 1..Len(ret.val.key_events) :
                                 ret.val.key_events[i].value = "999111"}) = 1
              /\ ret.val.activity = "banking"
              /\ ret.val.application = "Bank App"

\* The second of two calls made in the same tick while the loop runs.
C14_Witness ==
    /\ ret.op = "force_analyze"
    /\ running
    /\ now = 0
    /\ calls = 2
    /\ ret.val.last_analysis = 0
    /\ Len(ret.val.key_events) = 1
    /\ ret.val.key_events[1].value = "999111"

\* ----------------------------------------------------------------------
\* C15: a thread that is inside an external call (capture device, OCR
\* reader creation, OCR engine, analysis provider) holds no lock.
C15_NoLockAcrossExternalCall ==
    \A t \in LkThreads :
        external[t] # "none" => \A l \in Locks : lock_holder[l] # t

\* ----------------------------------------------------------------------
\* C16: start() on a stage that is already running creates no thread and
\* changes nothing, and stop() on a stage that is already stopped or was
\* never started changes nothing (it prints only) and returns at once.
StartCalled(s) ==
    calls' = calls + 1 /\ called'.op = "start" /\ called'.stage = s

StopCalled(s) ==
    calls' = calls + 1 /\ called'.op = "stop" /\ called'.stage = s

C16_StartStopIdempotent ==
    [][\A s \in Stages :
         /\ StartCalled(s) /\ Running(s) =>
               UNCHANGED <<running, cap_running, stage, log, now, capVars,
                           ocrVars, ctxVars, ret, reads, lockVars>>
         /\ StopCalled(s) /\ ~Running(s) =>
               /\ UNCHANGED <<running, cap_running, stage, now, capVars,
                              ocrVars, ctxVars, ret, reads, lockVars>>
               /\ stage'[s].pc = "idle"]_vars

\* start() has just returned early on a stage whose one thread is alive.
C16_Witness ==
    /\ called.op = "start"
    /\ called.early
    /\ stage[called.stage].created = 1
    /\ stage[called.stage].thread = "alive"
    /\ Running(called.stage)

\* ----------------------------------------------------------------------
\* C17: when stop() gives up waiting because the loop thread has not exited
\* within the timeout, a warning has been logged for that stage.
C17_TimeoutIsLogged ==
    \A s \in Stages :
        stage[s].timed_out => [stage |-> s, msg |-> "warning"] \in log

\* ----------------------------------------------------------------------
\* C20: an iteration of the capture loop that fails appends no frame and
\* dispatches nothing to the subscriber; the loop thread stays alive, the
\* stage stays running and the next iteration is due one interval later.
C20_CaptureFailureNonFatal ==
    [][stage'["capture"].failed_at # stage["capture"].failed_at =>
         /\ UNCHANGED <<frame_buffer, frames_appended, frame_count, ocrVars,
                        cap_running>>
         /\ LoopAlive("capture")'
         /\ next_capture' = now + FrameIntervalTicks]_vars

\* A frame was captured by an iteration later than a failed one.
C20_Witness ==
    /\ stage["capture"].failed_at # NoTime
    /\ [stage |-> "capture", msg |-> "capture_error"] \in log
    /\ \E i \in DOMAIN frame_buffer :
          frame_buffer[i].timestamp > stage["capture"].failed_at

\* ----------------------------------------------------------------------
\* C18: get_current_context changes no state, and a call that follows
\* another with no mutation in between returns the same activity,
\* application, key_events and last_analysis.
C18_ReadIsIdempotent ==
    [][calls' = calls + 1 /\ ret'.op = "get_current_context" =>
         /\ UNCHANGED <<now, capVars, ocrVars, ctxVars>>
         /\ ret.op = "get_current_context" => ret'.val = ret.val]_vars

\* Two calls in a row after a merge that stored key events.
C18_Witness ==
    /\ ret.op = "get_current_context"
    /\ calls = 3
    /\ Len(reads) = 2
    /\ reads[1].val = ret.val
    /\ reads[2].val = ret.val
    /\ ret.val.key_events # <<>>
    /\ ret.val.last_analysis # NoTime

\* ----------------------------------------------------------------------
\* C19: a returned snapshot is a copy: a later call of the analyzer leaves
\* every snapshot the caller holds as it was, and a change the caller makes
\* to a returned key_events list leaves the analyzer's state as it was.
C19_SnapshotIsCopy ==
    [][/\ calls' = calls + 1 =>
            \A k \in DOMAIN reads : reads'[k] = reads[k]
       /\ calls' = calls /\ reads' # reads => UNCHANGED ctxState]_vars

\* ----------------------------------------------------------------------
\* C21: an iteration whose subscriber callback raises keeps the frame it
\* captured in frame_buffer, leaves the loop thread alive and the stage
\* running, and the next iteration is due one interval later.
C21_CallbackFailureIsolated ==
    [][stage'["capture"].cb_failed_at # stage["capture"].cb_failed_at =>
         /\ frames_appended' = frames_appended + 1
         /\ frame_buffer' # <<>>
         /\ frame_buffer'[Len(frame_buffer')].timestamp = now
         /\ frame_buffer'[Len(frame_buffer')].n = frames_appended'
         /\ LoopAlive("capture")'
         /\ cap_running' = cap_running
         /\ next_capture' = now + FrameIntervalTicks]_vars

\* The frame of the failed callback is buffered before a later frame.
C21_Witness ==
    /\ [stage |-> "capture", msg |-> "callback_error"] \in log
    /\ Len(frame_buffer) = 2
    /\ frame_buffer[1].timestamp = stage["capture"].cb_failed_at
    /\ frame_buffer[2].timestamp > stage["capture"].cb_failed_at

\* ----------------------------------------------------------------------
\* C22: each buffer is ordered by time: the timestamps of the items of
\* frame_buffer, of text_buffer and of key_events are non-decreasing in
\* insertion order.
TimeOrdered(buf) ==
    \A i, j \in 1..Len(buf) : i < j => buf[i].timestamp <= buf[j].timestamp

C22_BuffersOrderedByTime ==
    /\ TimeOrdered(frame_buffer)
    /\ TimeOrdered(text_buffer)
    /\ TimeOrdered(key_events)

\* ----------------------------------------------------------------------
\* C23: once a thread's cycle has ended because no provider could be
\* initialised, and while none can be, that thread's later cycles do not
\* attempt the initialisation again.
C23_ProviderFailureSurfacedOnce ==
    [][\A th \in AnThreads :
         /\ finished.thread = th
         /\ finished.outcome = "provider_error"
         /\ an[th].pc = "provider"
         /\ provider' = "unset"
         => an'[th].pc = "provider"]_vars

\* ----------------------------------------------------------------------
\* C24: nothing is retried within a cycle.  The analysis loop makes its call
\* once per cycle, on its way from the provider step, and never returns to
\* it before the cycle has ended; a cycle that ends, failed or not, puts the
\* next one an analysis interval later, and none starts before.  A capture
\* iteration, failed or not, puts the next one a frame interval later, and
\* none starts before.
C24_NoRetryBeforeNextCycle ==
    [][/\ an'["loop"].pc = "call" => an["loop"].pc \in {"provider", "call"}
       /\ an["loop"].pc = "call" => an'["loop"].pc \in {"call", "merge", "idle"}
       /\ an["loop"].pc \in {"merge", "set_last"} =>
             an'["loop"].pc \in {"merge", "set_last", "idle"}
       /\ an["loop"].pc # "idle" /\ an'["loop"].pc = "idle" =>
             next_cycle' = now + AnalysisIntervalTicks
       /\ an["loop"].pc = "idle" /\ an'["loop"].pc # "idle" => now >= next_cycle
       /\ running => next_cycle' >= next_cycle
       /\ next_capture' # next_capture =>
             /\ now >= next_capture
             /\ next_capture' = now + FrameIntervalTicks]_vars

\* The loop makes the call of its second cycle after a first one whose call
\* failed, and a capture iteration has failed.
C24_Witness ==
    /\ an["loop"].pc = "call"
    /\ cycles = 2
    /\ finished.thread = "loop"
    /\ finished.outcome \in {"transport_error", "decode_error"}
    /\ now >= AnalysisIntervalTicks
    /\ frames_appended = 0
    /\ next_capture > 0

\* ----------------------------------------------------------------------
\* C25: the text embedded in the prompt has at most 4000 characters: a text
\* of at most 4000 characters is embedded unchanged and a longer one is cut
\* to its first 4000 characters.
C25_EmbeddedTextWithinBudget ==
    ret.op = "analyze_text" =>
        /\ Len(ret.val.embedded) <= MaxTextLength
        /\ Len(ret.val.text) <= MaxTextLength => ret.val.embedded = ret.val.text
        /\ Len(ret.val.text) > MaxTextLength =>
              ret.val.embedded = SubSeq(ret.val.text, 1, MaxTextLength)

\* ----------------------------------------------------------------------
\* C26: a cycle whose merge succeeds leaves activity and application equal
\* to the values its response carries: nothing of the previous activity or
\* application survives it.
C26_LastWriteWins ==
    [][\A th \in AnThreads :
         an[th].pc = "merge" /\ an'[th].pc = "set_last" =>
            /\ an[th].result.activity.has
            /\ current_activity' = an[th].result.activity.v
            /\ an[th].result.application.has
            /\ current_app' = an[th].result.application.v]_vars

\* ----------------------------------------------------------------------
\* C27: every record of text_buffer has a text with a non-whitespace
\* character.  A process_frame whose extracted text is empty or
\* whitespace-only appends nothing and returns None; one whose text is
\* non-blank appends exactly one record, carrying the frame's timestamp,
\* the text and the confidence, behind the records already held.
AppendsOne(t) ==
    LET k == Len(text_buffer')
    IN /\ texts_appended' = texts_appended + 1
       /\ k > 0
       /\ text_buffer'[k].timestamp = ocr[t].timestamp
       /\ text_buffer'[k].text = ocr[t].text
       /\ text_buffer'[k].confidence = ocr[t].confidence
       /\ SubSeq(text_buffer', 1, k - 1) =
             IF Len(text_buffer) = MaxTextBuffer THEN Tail(text_buffer)
                                                 ELSE text_buffer

C27_OnlyNonBlankStored ==
    [][/\ \A i \in DOMAIN text_buffer' : Strip(text_buffer'[i].text) # <<>>
       /\ \A t \in Threads :
            ocr[t].pc = "store" /\ ocr'[t].pc # "store" =>
               IF Strip(ocr[t].text) = <<>>
                 THEN /\ UNCHANGED <<text_buffer, texts_appended>>
                      /\ ocr'[t].result = ReturnNone
                      /\ ocr'[t].pc = "finally"
                 ELSE AppendsOne(t)]_vars

\* One call stored its text and a later one dropped a whitespace-only text.
C27_Witness ==
    /\ Len(text_buffer) = 1
    /\ texts_appended = 1
    /\ \E t \in Threads :
          /\ ocr[t].pc = "done"
          /\ ocr[t].text = <<" ">>
          /\ ocr[t].result = ReturnNone
          /\ ocr[t].timestamp > text_buffer[1].timestamp

\* ----------------------------------------------------------------------
\* C28: get_buffer_stats reports the buffer as it is.  The count is the
\* number of buffered items; for frames the oldest and newest timestamps
\* are those of the first and the last buffered frame; an empty buffer
\* gives count 0, duration 0 and no timestamps for frames, and entry_count
\* 0, total_characters 0 and avg_confidence 0.0 for text.
C28_StatsReportBuffer ==
    /\ ret.op = "frame_buffer_stats" =>
          /\ ret.val.frame_count = Len(frame_buffer)
          /\ frame_buffer # <<>> =>
                /\ ret.val.oldest_timestamp = Head(frame_buffer).timestamp
                /\ ret.val.newest_timestamp =
                      frame_buffer[Len(frame_buffer)].timestamp
          /\ frame_buffer = <<>> =>
                /\ ret.val.duration_ticks = 0
                /\ ret.val.oldest_timestamp = NoTime
                /\ ret.val.newest_timestamp = NoTime
    /\ ret.op = "text_buffer_stats" =>
          /\ ret.val.entry_count = Len(text_buffer)
          /\ text_buffer = <<>> =>
                /\ ret.val.total_characters = 0
                /\ ret.val.avg_confidence.num = 0

\* Stats of a full frame buffer whose frames were captured at different
\* times, after an older frame was evicted.
C28_Witness ==
    /\ ret.op = "frame_buffer_stats"
    /\ ret.val.frame_count = MaxFrameBuffer
    /\ frames_appended > MaxFrameBuffer
    /\ ret.val.oldest_timestamp < ret.val.newest_timestamp
    /\ ret.val.oldest_timestamp > 0

\* ----------------------------------------------------------------------
\* C29: until a cycle has completed a merge, get_current_context returns
\* the values of construction: activity "Starting up...", application
\* "Unknown", no key events and no last_analysis, whatever blank or failed
\* cycles there have been.
InitialContext ==
    [activity |-> "Starting up...", application |-> "Unknown",
     key_events |-> <<>>, last_analysis |-> NoTime]

NoMergeCompleted ==
    /\ last_analysis_time = NoTime
    /\ \A th \in AnThreads : an[th].pc # "set_last"

C29_InitialUntilFirstMerge ==
    NoMergeCompleted => CurrentContext = InitialContext

\* ----------------------------------------------------------------------
\* C30: a cycle of the analysis loop goes from idle through the fetch of
\* the text, the analysis call with its parse, and the merge, back to idle,
\* and may return to idle early from each.  The merge is reached only from
\* a call whose response was parsed, with the parsed value; the call is
\* reached only after the fetch of the same cycle.  While the analyzer is
\* not stopped, a loop that is idle goes on to begin its next cycle.
CycleOrder(pc) ==
    CASE pc = "idle" -> {"idle", "provider"}
      [] pc = "provider" -> {"provider", "call", "idle"}
      [] pc = "call" -> {"call", "merge", "idle"}
      [] pc = "merge" -> {"merge", "set_last", "idle"}
      [] pc = "set_last" -> {"set_last", "idle"}

ParsedValues ==
    {ParseResponse(text).value : text \in {t \in CtxResponses : ParseResponse(t).ok}}

C30_CycleOrderAndProgress ==
    /\ [][/\ an'["loop"].pc \in CycleOrder(an["loop"].pc)
          /\ an["loop"].pc = "call" /\ an'["loop"].pc = "merge" =>
                an'["loop"].result \in ParsedValues
          /\ an["loop"].pc = "idle" /\ an'["loop"].pc = "provider" =>
                cycles' = cycles + 1]_vars
    /\ \A c \in 0..(MaxCycles - 1) :
          (/\ running
           /\ LoopAlive("analyzer")
           /\ an["loop"].pc = "idle"
           /\ cycles = c
           /\ next_cycle <= MaxCtxTime)
          ~> (cycles > c \/ ~running)

\* A second cycle has reached its merge after a first that ended early.
C30_Witness ==
    /\ running
    /\ cycles = 2
    /\ an["loop"].pc = "merge"
    /\ finished.thread = "loop"
    /\ finished.outcome \in {"blank", "transport_error", "decode_error"}

\* ----------------------------------------------------------------------
\* C31: whatever start() and stop() calls were made on a stage, at most one
\* loop thread of that stage is alive while the stage is running: the
\* thread its attribute refers to, and no thread a timed-out stop() left
\* behind.
LoopThreads(s) ==
    (IF stage[s].thread = "alive" THEN 1 ELSE 0) + stage[s].zombies

C31_AtMostOneLoopThread ==
    \A s \in Stages : Running(s) => LoopThreads(s) <= 1

\* ----------------------------------------------------------------------
\* C32: once stop() has cleared a stage's flag and until a start() sets it
\* again, the stage's loop begins no iteration: no frame is captured, no
\* capture is attempted, no cycle is begun, and an analysis loop that is
\* idle stays idle.  A loop thread that is alive with the flag cleared
\* eventually ends, or the stage is started again.
C32_StopEndsLoop ==
    /\ [][/\ ~cap_running =>
                /\ UNCHANGED <<frame_buffer, frames_appended, frame_count,
                               next_capture>>
                /\ stage'["capture"].failed_at = stage["capture"].failed_at
          /\ ~running =>
                /\ cycles' = cycles
                /\ an["loop"].pc = "idle" => an'["loop"].pc = "idle"]_vars
    /\ \A s \in Stages :
          (~Running(s) /\ LoopAlive(s)) ~> (~LoopAlive(s) \/ Running(s))

\* A stopped analyzer whose loop thread, left behind by a timed-out join in
\* the middle of a cycle, is still inside its analysis call after the stop
\* has returned.
C32_Witness ==
    /\ ~running
    /\ stage["analyzer"].zombies > 0
    /\ stage["analyzer"].pc = "idle"
    /\ an["loop"].pc = "call"
    /\ called.op = "stop"

\* ----------------------------------------------------------------------
\* C33: an extraction under way never holds up the capture loop or the
\* queries.  While some OCR thread is inside the engine, an iteration of
\* the capture loop that is due can run; the iteration appends its frame,
\* is followed by the next one interval later and moves no OCR thread (the
\* callback only starts one).  While the analysis call is under way, every
\* query can run.
C33_NoStall ==
    /\ [](InFlight # {} /\ now >= next_capture /\ frames_appended < MaxFrames
             => ENABLED CaptureFrame)
    /\ [][frames_appended' = frames_appended + 1 =>
             /\ frame_buffer'[Len(frame_buffer')].timestamp = now
             /\ next_capture' = now + FrameIntervalTicks
             /\ \A t \in Threads :
                   \/ ocr'[t] = ocr[t]
                   \/ /\ ocr[t].pc = "unborn"
                      /\ ocr'[t].pc = "check_processing"]_vars
    /\ [](external["analysis"] = "analysis_provider" =>
             /\ \A l \in {"frame_lock", "buffer_lock", "context_lock"} :
                   lock_holder[l] = "none"
             /\ ENABLED LockedQuery)

\* A frame was appended while the extraction of an earlier frame was under
\* way, and a query returned while the analysis call was under way.
C33_Witness ==
    /\ \E t \in InFlight :
          frame_buffer[Len(frame_buffer)].timestamp > ocr[t].timestamp
    /\ external["analysis"] = "analysis_provider"
    /\ ret.op = "get_current_context"

\* ----------------------------------------------------------------------
\* C34: the starts of consecutive cycles of the analysis loop are exactly
\* analysis_interval apart.  With the loop woken on time, next_cycle is the
\* start of the cycle under way; the step that ends the cycle schedules the
\* next start one interval after that start, however long the cycle took.
C34_FixedPeriod ==
    [][/\ CycleEnds("loop") =>
             next_cycle' = next_cycle + AnalysisIntervalTicks
       /\ BlankSkip => next_cycle' = now + AnalysisIntervalTicks]_vars

\* ----------------------------------------------------------------------
\* C35: an exception in one iteration ends neither the analysis loop nor
\* the OCR chain.  A cycle of the loop that ends in an error (of the text
\* callback, of the provider, of the decoding or of the merge) leaves the
\* analyzer running and the loop idle with its next wake-up one interval
\* later, and the loop can then begin its next cycle.  An OCR thread whose
\* extraction failed returns through its finally clause, every started OCR
\* thread that has not returned can take its next step, and the capture
\* loop can go on.
ErrorOutcomes ==
    {"callback_error", "provider_error", "transport_error", "decode_error",
     "shape_error"}

C35_FailuresIsolated ==
    /\ [][(finished' # finished \/ cycles' # cycles)
            /\ finished'.thread = "loop"
            /\ finished'.outcome \in ErrorOutcomes
            /\ an'["loop"].pc = "idle" /\ (an["loop"].pc # "idle" \/ cycles' # cycles)
          => /\ running' = running
             /\ an'["loop"] = NoCycle
             /\ next_cycle' = now + AnalysisIntervalTicks]_vars
    /\ [](running /\ an["loop"].pc = "idle" /\ now >= next_cycle
              /\ cycles < MaxCycles
            => ENABLED LoopFetch(CycleTexts))
    /\ [](\A t \in Threads :
            /\ ocr[t].pc \notin {"unborn", "done"} => ENABLED OcrStep(t)
            /\ ocr[t].pc = "finally" => ENABLED Finally(t))
    /\ [](~running /\ cycles = 0 /\ now >= next_capture
              /\ frames_appended < MaxFrames
            => ENABLED FaultCapture)

\* The loop has begun a cycle after one that ended in an exception of the
\* text callback, or a later frame's extraction is under way after one whose
\* extraction failed or found nothing.
C35_Witness ==
    \/ /\ cycles = 2
       /\ an["loop"].pc = "call"
       /\ finished.outcome = "callback_error"
    \/ /\ Len(attempts) = 2
       /\ attempts[1].end # NoTime
       /\ attempts[1].end <= attempts[2].chk_now
       /\ ocr[attempts[1].frame].result = ReturnNone
       /\ ocr[attempts[2].frame].pc = "extract"

\* ----------------------------------------------------------------------
\* C36: a conforming object wrapped in a code fence, with or without the
\* json tag, is decoded to the same value as the bare object, so that the
\* merge it leads to is the same; a response that cannot be decoded, and a
\* decoded value that is no conforming object, change nothing of the
\* context state.
ConformingItem(info) ==
    info.obj /\ info.type.has /\ info.value.has /\ info.context.has

Conforming(r) ==
    /\ r.top = "object"
    /\ r.activity.has /\ r.application.has
    /\ r.key_info.kind = "list"
    /\ \A i \in 1..Len(r.key_info.items) : ConformingItem(r.key_info.items[i])

FencedTexts(r) ==
    { <<Tok("fence"), Tok("json"), Tok("ws"), JsonText(r), Tok("ws"), Tok("fence")>>,
      <<Tok("fence"), Tok("json"), JsonText(r), Tok("fence")>>,
      <<Tok("fence"), Tok("ws"), JsonText(r), Tok("ws"), Tok("fence")>>,
      <<Tok("fence"), JsonText(r), Tok("fence")>>,
      <<Tok("ws"), Tok("fence"), Tok("json"), Tok("ws"), JsonText(r), Tok("fence"),
        Tok("ws")>> }

FencedEqualsBare ==
    \A r \in {x \in CtxResults : Conforming(x)} :
        \A text \in FencedTexts(r) :
            /\ ParseResponse(text) = ParseResponse(<<JsonText(r)>>)
            /\ ParseResponse(text) = [ok |-> TRUE, value |-> r]

C36_FencedOrFailure ==
    [][/\ FencedEqualsBare
       /\ \A th \in AnThreads :
            /\ CycleEnds(th) /\ finished'.outcome = "decode_error" =>
                  UNCHANGED ctxState
            /\ an[th].pc = "merge" /\ an'[th].pc # "merge"
                  /\ ~Conforming(an[th].result) =>
                  UNCHANGED ctxState]_vars

\* ----------------------------------------------------------------------
\* C37: a read operation changes nothing: a step in which get_frames_since,
\* get_latest_frame, get_recent_text, get_combined_text, either
\* get_buffer_stats, get_current_context or get_recent_key_events returns
\* leaves the two buffers, the throttle state (the in-flight flag and the
\* last extraction time) and the context state as they were; the context
\* state changes only in a step of an analysis call.
ReadOps ==
    {"get_frames_since", "get_latest_frame", "get_recent_text",
     "get_combined_text", "frame_buffer_stats", "text_buffer_stats",
     "get_current_context", "get_recent_key_events"}

C37_ReadsMutateNothing ==
    [][/\ ret'.op \in ReadOps =>
            UNCHANGED <<frame_buffer, frames_appended, text_buffer,
                        texts_appended, processing, last_extraction_time,
                        ctxState, events_appended>>
       /\ ctxState' # ctxState => ret'.op = "force_analyze"]_vars

\* A read has returned the newest of the frames, with records in the text
\* buffer and events in the context, all left in place.
C37_Witness ==
    /\ ret.op = "get_latest_frame"
    /\ frame_buffer # <<>>
    /\ ret.val = <<frame_buffer[Len(frame_buffer)]>>
    /\ text_buffer # <<>>
    /\ key_events # <<>>

\* ----------------------------------------------------------------------
\* C38: a time-filtered snapshot taken while the capture loop appends and
\* evicts is the filter of the buffer as it is at one instant of the call.
\* While the call iterates, what it has built is the filter of the items it
\* has passed, of a buffer that does not change under it; what it returns
\* is the filter, by the cutoff taken at the call, of the buffer as it is
\* at the return.  The returned items are consecutive appends, each once.
Consecutive(items) ==
    \A k \in 1..(Len(items) - 1) : items[k + 1].n = items[k].n + 1

C38_SnapshotAtOneInstant ==
    /\ [][/\ lpc["query"] = "iterate" /\ lpc'["query"] = "iterate" =>
                frame_buffer' = frame_buffer
          /\ lpc["query"] = "iterate" /\ lpc'["query"] = "idle" =>
                /\ ret'.val = FilterSince(frame_buffer, ret'.arg)
                /\ frame_buffer' = frame_buffer
                /\ Consecutive(ret'.val)]_vars
    /\ [](lpc["query"] = "iterate" =>
             /\ ret.val.i <= Len(frame_buffer)
             /\ ret.val.out =
                   FilterSince(SubSeq(frame_buffer, 1, ret.val.i), ret.arg))

\* A snapshot is half way through a full buffer, one item kept so far, while
\* the capture loop waits for the lock with a frame whose append will evict
\* the item the snapshot has just passed.
C38_Witness ==
    /\ lpc["query"] = "iterate"
    /\ lpc["capture"] = "frame_lock"
    /\ Len(frame_buffer) = MaxFrameBuffer
    /\ ret.val.i = 1
    /\ Len(ret.val.out) = 1

\* ----------------------------------------------------------------------
\* The statements of a merge are made by the holder of the context lock, so
\* two merges never overlap.
InMerge(th) == an[th].pc \in {"activity", "application", "items"}

MergesSerialised ==
    /\ ~(InMerge("loop") /\ InMerge("force"))
    /\ \A th \in AnThreads : InMerge(th) => lock_holder["context_lock"] = th

\* The activity/application pairs a single result carries.
CarriedPairs ==
    { <<ParseResponse(t).value.activity.v, ParseResponse(t).value.application.v>> :
        t \in { u \in MergeResponses :
                  /\ ParseResponse(u).value.activity.has
                  /\ ParseResponse(u).value.application.has } }

SameKey(e, f) == e.type = f.type /\ e.value = f.value

\* C39: a force_analyze and a periodic cycle that run together merge one
\* after the other.  Their merges never overlap; no two stored events have
\* the same (type, value); an item a merge has passed is among the stored
\* events under the type and value it is stored with, and stored events
\* leave only from the old end; and when a merge completes, activity and
\* application are a pair that one result carries.
C39_MergesSerialised ==
    /\ [](MergesSerialised)
    /\ [](\A i, j \in 1..Len(key_events) :
             SameKey(key_events[i], key_events[j]) => i = j)
    /\ [][\A th \in AnThreads :
            /\ an[th].pc = "items" /\ an'[th].pc = "items" /\ an'[th] # an[th] =>
                 LET info == Head(an[th].result.key_info.items)
                 IN /\ \E i \in 1..Len(key_events') :
                         /\ key_events'[i].type = Get(info.type, "info")
                         /\ key_events'[i].value = Get(info.value, "")
                    /\ \/ key_events' = key_events
                       \/ \E e \in {NewEvent(info, now, events_appended)} :
                            key_events' = DequeAppend(key_events, e, MaxHistory)
            /\ an[th].pc = "items" /\ an'[th].pc = "set_last" =>
                 <<current_activity', current_app'>> \in CarriedPairs]_vars

\* What holds of every pair of merges, items with or without their keys:
\* the merges do not overlap, a merge's turn either leaves the events alone
\* or appends its item at the new end, and a completed merge of a result
\* that carries both fields leaves that result's pair.
SerialisedMerges ==
    /\ [](MergesSerialised)
    /\ [][\A th \in AnThreads :
            /\ an[th].pc = "items" /\ an'[th].pc = "items" /\ an'[th] # an[th] =>
                 LET info == Head(an[th].result.key_info.items)
                 IN IF IsDuplicate(key_events, info)
                      THEN key_events' = key_events
                      ELSE key_events' =
                             DequeAppend(key_events,
                                         NewEvent(info, now, events_appended),
                                         MaxHistory)
            /\ (/\ an[th].pc = "items" /\ an'[th].pc = "set_last"
                /\ an[th].result.activity.has /\ an[th].result.application.has) =>
                 /\ current_activity' = an[th].result.activity.v
                 /\ current_app' = an[th].result.application.v]_vars

\* ----------------------------------------------------------------------
\* The process_frame calls between setting the flag and the finally clause.
FlagSetters == {t \in Threads : ocr[t].pc \in {"extract", "store", "set_last", "finally"}}

\* C40: the flag is never left set.  A call that set it returns only
\* through its finally clause, which leaves the flag clear, whatever the
\* extraction gave; the flag is set only while such a call is under way;
\* and a call that arrives when none is under way passes the in-flight
\* check, and with the rate limit satisfied goes on to set the flag and to
\* call the engine.
C40_FlagNeverStuck ==
    /\ [](processing => FlagSetters # {})
    /\ [][\A t \in Threads :
            /\ t \in FlagSetters /\ ocr'[t].pc = "done" =>
                 ocr[t].pc = "finally" /\ ~processing'
            /\ (/\ FlagSetters = {}
                /\ ocr[t].pc = "check_processing"
                /\ ocr'[t].pc # "check_processing") => ocr'[t].pc = "check_rate"
            /\ (/\ ocr[t].pc = "check_rate"
                /\ ocr'[t].pc # "check_rate"
                /\ ~RateLimited(last_extraction_time, now)) => ocr'[t].pc = "set_flag"
            /\ ocr[t].pc = "set_flag" /\ ocr'[t].pc # "set_flag" =>
                 ocr'[t].pc = "extract" /\ processing']_vars

\* A call whose extraction gave blank text has returned, and a later call
\* has set the flag and is inside the engine.
C40_Witness ==
    \E t, u \in Threads :
        /\ t < u
        /\ ocr[t].pc = "done"
        /\ \E i \in DOMAIN attempts : attempts[i].frame = t /\ attempts[i].end # NoTime
        /\ Strip(ocr[t].text) = <<>>
        /\ ocr[u].pc = "extract"
        /\ processing

====
